---- MODULE Spec2Model ----
(***************************************************************************)
(* jlink.online: the runtime acquisition and build pipeline.               *)
(*                                                                         *)
(* The model follows the sources of the service as it is built today:      *)
(*   src/jlink.go     1-440  main, handleRequest, jlink                    *)
(*   src/adoptium.go  1-132  metadataCache, lookupRelease, downloadLock,   *)
(*                           downloadRelease                               *)
(*   src/util.go      1-59   getMajorVersion, newTemporaryFile,            *)
(*                           newTemporaryDirectory                         *)
(* Each request is served by its own goroutine (gin / net/http), so the    *)
(* handlers of different requests interleave at every access to the        *)
(* process-wide state: the metadata map, the download lock, the runtime    *)
(* cache directory and the temporary directory.                            *)
(*                                                                         *)
(* Strings the code inspects character by character (version tokens,       *)
(* module names, artifact coordinates) are sequences of one-character      *)
(* strings; file names are sequences of name pieces, the last piece being  *)
(* the extension.                                                          *)
(***************************************************************************)
EXTENDS Integers, Sequences, FiniteSets, TLC

(***************************************************************************)
(* Bounds of the model.                                                    *)
(***************************************************************************)
\* Number of requests the service receives; their handlers run concurrently.
NumRequests == 2
\* rand.Int() is drawn from 0 .. RandMax-1.
RandMax == 2

Requests == 1 .. NumRequests
RandInts == 0 .. (RandMax - 1)

\* The zero values of the program's types.
NoDir == -1
NoPath == <<>>
Unlocked == 0

(***************************************************************************)
(* Character-level helpers.                                                *)
(***************************************************************************)
Digits == {"0", "1", "2", "3", "4", "5", "6", "7", "8", "9"}
NonZeroDigits == Digits \ {"0"}
Letters == {"a", "b", "e", "g", "j", "l", "s", "t", "v", "x", "A", "Z", "_"}
\* \w of Go's regexp (RE2): [0-9A-Za-z_], restricted to the model's alphabet.
WordChars == Digits \cup Letters

DigitValue(c) ==
  CASE c = "0" -> 0 [] c = "1" -> 1 [] c = "2" -> 2 [] c = "3" -> 3
    [] c = "4" -> 4 [] c = "5" -> 5 [] c = "6" -> 6 [] c = "7" -> 7
    [] c = "8" -> 8 [] c = "9" -> 9

\* strings.Index(s, c): the first position of character c in s, 0 when absent
\* (Go returns -1; positions here are 1-based).
RECURSIVE IndexFrom(_, _, _)
IndexFrom(s, c, i) ==
  IF i > Len(s) THEN 0
  ELSE IF s[i] = c THEN i
  ELSE IndexFrom(s, c, i + 1)

Index(s, c) == IndexFrom(s, c, 1)

\* strings.Split(s, sep) for a one-character separator.
RECURSIVE Split(_, _)
Split(s, sep) ==
  LET i == Index(s, sep)
  IN  IF i = 0 THEN <<s>>
      ELSE <<SubSeq(s, 1, i - 1)>> \o Split(SubSeq(s, i + 1, Len(s)), sep)

\* strings.TrimSuffix on a file name kept as name pieces: the suffix is
\* removed when it is the last piece.
TrimSuffix(name, suffix) ==
  IF Len(name) > 0 /\ name[Len(name)] = suffix
  THEN SubSeq(name, 1, Len(name) - 1)
  ELSE name

\* strconv.Atoi on an unsigned decimal string; err is TRUE for the empty
\* string and for a string holding anything but digits.
RECURSIVE DecimalValue(_)
DecimalValue(s) ==
  IF s = <<>> THEN 0
  ELSE 10 * DecimalValue(SubSeq(s, 1, Len(s) - 1)) + DigitValue(s[Len(s)])

Atoi(s) ==
  IF s # <<>> /\ \A i \in 1 .. Len(s) : s[i] \in Digits
  THEN [value |-> DecimalValue(s), err |-> FALSE]
  ELSE [value |-> 0, err |-> TRUE]

(***************************************************************************)
(* The regular expressions of jlink.go:192-198.  A matcher returns the set *)
(* of positions at which the sub-expression can stop when it starts at     *)
(* position i, as a backtracking matcher explores them.                    *)
(***************************************************************************)
\* [1-9][0-9]*
RECURSIVE MoreDigits(_, _)
MoreDigits(s, i) ==
  IF i <= Len(s) /\ s[i] \in Digits
  THEN {i} \cup MoreDigits(s, i + 1)
  ELSE {i}

MatchNumber(s, i) ==
  IF i <= Len(s) /\ s[i] \in NonZeroDigits THEN MoreDigits(s, i + 1) ELSE {}

\* A versionCheck without (\.0)*.
NoDotZeros(s, i) == {i}

\* (\.0)*
RECURSIVE MatchDotZeros(_, _)
MatchDotZeros(s, i) ==
  IF i + 1 <= Len(s) /\ s[i] = "." /\ s[i + 1] = "0"
  THEN {i} \cup MatchDotZeros(s, i + 2)
  ELSE {i}

\* (\.0)*\.[1-9][0-9]*
MatchGroup(s, i) ==
  UNION { IF j <= Len(s) /\ s[j] = "." THEN MatchNumber(s, j + 1) ELSE {}
          : j \in MatchDotZeros(s, i) }

\* ((\.0)*\.[1-9][0-9]*)*
RECURSIVE MatchGroups(_, _)
MatchGroups(s, i) ==
  {i} \cup UNION { MatchGroups(s, j) : j \in MatchGroup(s, i) }

\* [1-9][0-9]*((\.0)*\.[1-9][0-9]*)*
MatchPart(s, i) ==
  UNION { MatchGroups(s, j) : j \in MatchNumber(s, i) }

\* versionCheck: ^PART(\+PART)?$
versionCheck(s) ==
  LET afterBase == MatchPart(s, 1)
      afterBuild == UNION { IF j <= Len(s) /\ s[j] = "+"
                            THEN MatchPart(s, j + 1) ELSE {}
                            : j \in afterBase }
  IN  (Len(s) + 1) \in (afterBase \cup afterBuild)

\* platformCheck: ^(linux|windows|mac|solaris|aix)$
platformCheck(p) == p \in {"linux", "windows", "mac", "solaris", "aix"}

\* archCheck: ^(x64|x32|ppc64|s390x|ppc64le|aarch64|arm)$
archCheck(a) == a \in {"x64", "x32", "ppc64", "s390x", "ppc64le", "aarch64", "arm"}

\* moduleCheck: ^[\w\.]+$
moduleCheck(m) ==
  Len(m) >= 1 /\ \A i \in 1 .. Len(m) : m[i] \in WordChars \cup {"."}

\* artifactCheck: ^[\w\.-]+:[\w\.-]+:[\w\.-]+$
artifactCheck(a) ==
  LET fields == Split(a, ":")
  IN  /\ Len(fields) = 3
      /\ \A k \in 1 .. 3 :
           /\ Len(fields[k]) >= 1
           /\ \A i \in 1 .. Len(fields[k]) :
                fields[k][i] \in WordChars \cup {".", "-"}

\* A handleRequest that did not look at the major version.
MajorNotRead(version) == [value |-> 9, err |-> FALSE]

\* getMajorVersion (util.go:23-33): cut at the first ".", then at the first
\* "+", and convert what is left.
getMajorVersion(version) ==
  LET i == Index(version, ".")
      v1 == IF i # 0 THEN SubSeq(version, 1, i - 1) ELSE version
      j == Index(v1, "+")
      v2 == IF j # 0 THEN SubSeq(v1, 1, j - 1) ELSE v1
  IN  Atoi(v2)

(***************************************************************************)
(* Configuration (jlink.go:31-49) and the values requests are drawn from.  *)
(***************************************************************************)
RT_CACHE == "runtime_cache"
LOCAL_PLATFORM == "linux"
LOCAL_ARCH == "x64"

JavaBase == <<"j", "a", "v", "a", ".", "b", "a", "s", "e">>
\* 11.0.8+10, the version of the README's examples
Version11 == <<"1", "1", ".", "0", ".", "8", "+", "1", "0">>
\* The tokens a request can name the release 11.0.8+10 by: the major version,
\* the base version, the base version with its build.
VersionTokens == {<<"1", "1">>, <<"1", "1", ".", "0", ".", "8">>, Version11}

\* a:b:1
Coordinate == <<"a", ":", "b", ":", "1">>

PlatformInputs == {"linux", "a"}
ArchInputs == {"x64", "ppc64", "a"}
VersionInputs ==
  {Version11, <<"1", "a", "3">>, <<"8">>, <<"l", "t", "s">>, <<"e", "a">>, <<"g", "a">>}
EndianInputs == {"", "middle"}
ImplementationInputs == {"hotspot", ""}
ModulesInputs == {<<JavaBase>>, << <<"&">> >>}
ArtifactsInputs == {<<>>, <<Coordinate>>, << <<"a", ":", "b">> >>}

\* How many parameters of one request may be invalid at once.
MaxFaults == 1

Fault(b) == IF b THEN 0 ELSE 1

Faults(q) ==
    Fault(platformCheck(q.platform))
  + Fault(archCheck(q.arch))
  + Fault(\A i \in 1 .. Len(q.artifacts) : artifactCheck(q.artifacts[i]))
  + Fault(\A i \in 1 .. Len(q.modules) : moduleCheck(q.modules[i]))
  + Fault(q.endian \in {"", "big", "little"})
  + Fault(q.implementation \in {"hotspot", "openj9"})
  + Fault(versionCheck(q.version) /\ getMajorVersion(q.version).value >= 9)

RequestInputs ==
  { q \in [platform : PlatformInputs, arch : ArchInputs, version : VersionInputs,
           endian : EndianInputs, implementation : ImplementationInputs,
           modules : ModulesInputs, artifacts : ArtifactsInputs] :
      Faults(q) <= MaxFaults }

NoRequest == [platform |-> "", arch |-> "", version |-> <<>>, endian |-> "",
              implementation |-> "", modules |-> <<>>, artifacts |-> <<>>]

(***************************************************************************)
(* The upstream release index (adoptium.go:29-47, 65-76).                  *)
(***************************************************************************)
\* How many builds of one version the index comes to list.
MaxBuilds == 2

Builds == 1 .. MaxBuilds

\* The name of a package carries its build, as in
\* OpenJDK11U-jdk_x64_linux_hotspot_11.0.8_10.tar.gz.
PackageName(arch, platform, implementation, build) ==
  <<"OpenJDK11U-jdk", arch, platform, implementation, ToString(build),
    IF platform = "windows" THEN ".zip" ELSE ".tar.gz">>

Binary(arch, platform, implementation, build) ==
  [Architecture |-> arch, Implementation |-> implementation, Platform |-> platform,
   Package |-> [Name |-> PackageName(arch, platform, implementation, build),
                Link |-> <<"https://", PackageName(arch, platform, implementation, build)>>]]

\* The build a binary is of; 0 for a nil binary.
BuildOf(binary) ==
  IF Len(binary.Package.Name) = 0 THEN 0
  ELSE CHOOSE b \in Builds : ToString(b) = binary.Package.Name[5]

\* What adoptium.Get and the JSON decoder can give for one query: a transport
\* error, a body that does not decode, or a list of releases, whose first
\* binary is of any build the index lists.
IndexReplies(arch, platform, implementation, version, builds) ==
  { [err |-> "transport", releases |-> <<>>],
    [err |-> "decode", releases |-> <<>>],
    [err |-> "", releases |-> <<>>],
    [err |-> "", releases |-> << [Binaries |-> <<>>] >>] }
  \cup
  { [err |-> "",
     releases |-> << [Binaries |-> <<Binary(arch, platform, implementation, b)>>] >>] :
      b \in builds }

\* cacheKey := arch + "_" + platform + "_" + implementation + "_" + version
cacheKey(arch, platform, implementation, version) ==
  <<arch, "_", platform, "_", implementation, "_", version>>

CacheKeys ==
  { cacheKey(a, p, i, v) :
      a \in {x \in ArchInputs : archCheck(x)} \cup {LOCAL_ARCH},
      p \in {x \in PlatformInputs : platformCheck(x)} \cup {LOCAL_PLATFORM},
      i \in {x \in ImplementationInputs : x \in {"hotspot", "openj9"}},
      v \in {x \in VersionInputs \cup VersionTokens :
                versionCheck(x) /\ getMajorVersion(x).value >= 9} }

\* runtimePath := RT_CACHE + "/" + TrimSuffix(TrimSuffix(Package.Name, ".zip"), ".tar.gz")
runtimePath(binary) ==
  <<RT_CACHE, TrimSuffix(TrimSuffix(binary.Package.Name, ".zip"), ".tar.gz")>>

\* A nil *adoptiumBinary.
NoBinary ==
  [Architecture |-> "", Implementation |-> "", Platform |-> "",
   Package |-> [Name |-> <<>>, Link |-> <<>>]]

RuntimePaths ==
  { runtimePath(Binary(a, p, i, b)) :
      a \in {x \in ArchInputs : archCheck(x)} \cup {LOCAL_ARCH},
      p \in {x \in PlatformInputs : platformCheck(x)} \cup {LOCAL_PLATFORM},
      i \in {x \in ImplementationInputs : x \in {"hotspot", "openj9"}},
      b \in Builds }

(***************************************************************************)
(* State.                                                                  *)
(***************************************************************************)
VARIABLES
  MAVEN_CENTRAL,  \* jlink.go:42, set from the environment by main
  metadataCache,  \* adoptium.go:54: cache key -> binary, NoBinary when absent
  downloadLock,   \* adoptium.go:51: the request holding the mutex, Unlocked when free
  rtCache,        \* the directories under RT_CACHE: "absent", "partial", "complete"
  tmpDirs,        \* the directories TMP/<n> that exist
  crashed,        \* the runtime ended the process (concurrent map access)
  pc,             \* where the handler of each request is
  stage,          \* which runtime a lookup or download is for: "target", "local"
  req,            \* the parameters of each request
  found,          \* lookupRelease: the binary decoded from the index reply
  bin,            \* handleRequest: target and local
  path,           \* handleRequest: targetRuntimePath and localRuntimePath
  dirs,           \* the temporary directories each handler has created
  resp,           \* the response written for each request
  downloads,      \* history: archive GETs issued, per cache directory
  extractions,    \* history: extractions started, per cache directory
  failed,         \* history: a download or extraction for the directory failed
  last,           \* history: how the last returned downloadRelease call ended
  returned,       \* history: the handles returned, per cache directory
  entry,          \* history: rtCache when the call took the lock
  underLock,      \* history: a lookup that ran while another request held the lock
  asked,          \* history: the parameters each request came with
  listed,         \* the builds the upstream release index lists
  checkedToken,   \* versionCheck, getMajorVersion: the string given
  checkResult,    \* versionCheck, getMajorVersion: what they returned
  requested,      \* jlink: the modules parameter
  addModules,     \* jlink: the list given to --add-modules
  environ,        \* the process: the LOCAL_PLATFORM entry of the environment, runtime.GOOS
  determined,     \* determineLocalPlatform: what it returned
  jl,             \* jlink: its parameters and locals
  sent,           \* handleRequest: the response written after jlink returned
  compared,       \* compareJdkRelease: the version strings given and what it returned
  routed,         \* main: the request given to a route and what its handler did with it
  looked,         \* lookupRelease on its own: the call, the index's reply, the result
  buckets,        \* cacheRelease: metadataCache of maven_central.go:247, by base version
  coordinates,    \* downloadArtifacts: the artifacts parameter of the outermost call
  outputDir,      \* downloadArtifacts: the files in the output directory
  callStack,      \* downloadArtifacts: the frames of the recursion, innermost last
  callResult,     \* downloadArtifacts: what the outermost call returned
  fetchLog,       \* history: the GETs the current outermost call sent, in order
  callCount,      \* history: the outermost calls made on the output directory
  earlier         \* history: what the earlier outermost calls returned

shared == <<MAVEN_CENTRAL, metadataCache, downloadLock, rtCache, tmpDirs, crashed>>
locals == <<pc, stage, req, found, bin, path, dirs, resp>>
history == <<downloads, extractions, failed, last, returned, entry, underLock>>
\* The variables of the operations that are exercised on their own.
functions ==
  <<checkedToken, checkResult, requested, addModules, environ, determined, jl, sent, compared,
    routed, looked, buckets>>
resolver == <<coordinates, outputDir, callStack, callResult, fetchLog, callCount, earlier>>
offline == <<functions, resolver>>
vars == <<shared, locals, history, asked, listed, offline>>

\* Nothing is being checked, linked or resolved on its own.
NoToken == <<>>
NoVerdict == [match |-> FALSE, major |-> 0, err |-> FALSE, done |-> FALSE]

NoVersionCheck ==
  /\ checkedToken = NoToken
  /\ checkResult = NoVerdict

\* A Linux host whose environment does not set LOCAL_PLATFORM.
NoEnviron == [LOCAL_PLATFORM |-> [exists |-> FALSE, value |-> ""], GOOS |-> "linux"]
NotDetermined == [returned |-> FALSE, value |-> ""]
NoJlink == [at |-> "none"]
NothingSent == [code |-> 0, reason |-> "", filename |-> <<>>, body |-> {}]

NoPlatform ==
  /\ environ = NoEnviron
  /\ determined = NotDetermined

NoBuild ==
  /\ jl = NoJlink
  /\ sent = NothingSent

NoLink ==
  /\ requested = <<>>
  /\ addModules = <<>>
  /\ NoPlatform
  /\ NoBuild

NoComparison == [at |-> "none"]

NoCompare == compared = NoComparison

NotRouted == [at |-> "none"]

NoRoute == routed = NotRouted

NotLooked == [at |-> "none"]
NoBuckets == [at |-> "none"]

NoCacheRun == looked = NotLooked /\ buckets = NoBuckets

NoResolver ==
  /\ coordinates = <<>>
  /\ outputDir = {}
  /\ callStack = <<>>
  /\ callResult = "none"
  /\ fetchLog = <<>>
  /\ callCount = 0
  /\ earlier = <<>>

Offline == NoVersionCheck /\ NoLink /\ NoCompare /\ NoRoute /\ NoCacheRun /\ NoResolver

NoDirs == [dl |-> NoDir, mc |-> NoDir, out |-> NoDir, ar |-> NoDir]
\* rtCache is not known outside a call of downloadRelease.
NoEntry == [d \in RuntimePaths |-> "unknown"]
NoResponse == [code |-> 0, reason |-> "", filename |-> <<>>]

Init ==
  /\ MAVEN_CENTRAL \in BOOLEAN
  /\ metadataCache = [k \in CacheKeys |-> NoBinary]
  /\ downloadLock = Unlocked
  /\ rtCache = [d \in RuntimePaths |-> "absent"]
  /\ tmpDirs = {}
  /\ crashed = FALSE
  /\ pc = [r \in Requests |-> "idle"]
  /\ stage = [r \in Requests |-> "target"]
  /\ req = [r \in Requests |-> NoRequest]
  /\ found = [r \in Requests |-> NoBinary]
  /\ bin = [r \in Requests |-> [target |-> NoBinary, local |-> NoBinary]]
  /\ path = [r \in Requests |-> [target |-> NoPath, local |-> NoPath]]
  /\ dirs = [r \in Requests |-> NoDirs]
  /\ resp = [r \in Requests |-> NoResponse]
  /\ downloads = [d \in RuntimePaths |-> 0]
  /\ extractions = [d \in RuntimePaths |-> 0]
  /\ failed = [d \in RuntimePaths |-> FALSE]
  /\ last = [d \in RuntimePaths |-> "none"]
  /\ returned = [d \in RuntimePaths |-> {}]
  /\ entry = [r \in Requests |-> NoEntry]
  /\ underLock = [r \in Requests |-> "no"]
  /\ asked = [r \in Requests |-> NoRequest]
  /\ listed = {1}
  /\ Offline

(***************************************************************************)
(* handleRequest: responses.  A handler that returns runs its deferred     *)
(* os.RemoveAll(dir) of the artifact directory (jlink.go:294-295).         *)
(***************************************************************************)
\* A failure answered as an error of the server.
ServerError(reason) == [code |-> 500, reason |-> reason, filename |-> <<>>]

\* context.JSON(http.StatusBadRequest, gin.H{"success": false, "reason": reason})
BadRequest(reason) == [code |-> 400, reason |-> reason, filename |-> <<>>]

\* context.DataFromReader(http.StatusOK, ..., "Content-Disposition": filename)
Success(filename) == [code |-> 200, reason |-> "", filename |-> filename]

\* os.RemoveAll(dir) for each directory of the set
RemoveAll(existing, removed) == existing \ removed

\* The handler writes its response and returns: its locals are gone.
Respond(r, response) ==
  /\ resp' = [resp EXCEPT ![r] = response]
  /\ pc' = [pc EXCEPT ![r] = "done"]
  /\ dirs' = [dirs EXCEPT ![r] = NoDirs]
  /\ stage' = [stage EXCEPT ![r] = "target"]
  /\ req' = [req EXCEPT ![r] = NoRequest]
  /\ found' = [found EXCEPT ![r] = NoBinary]
  /\ bin' = [bin EXCEPT ![r] = [target |-> NoBinary, local |-> NoBinary]]
  /\ path' = [path EXCEPT ![r] = [target |-> NoPath, local |-> NoPath]]

(***************************************************************************)
(* main and handleRequest: the checks made before any lookup               *)
(* (jlink.go:119-141, 200-261).                                            *)
(***************************************************************************)
\* endian == "" is guessed from the architecture (jlink.go:231-238).
LittleWhenOmitted(endian, arch) == IF endian = "" THEN "little" ELSE endian

guessEndian(endian, arch) ==
  IF endian = ""
  THEN IF arch = "ppc64" \/ arch = "s390x" THEN "big" ELSE "little"
  ELSE endian

\* The reason of the 400 response a request is rejected with, "" when it passes.
Validate(q, mavenCentral) ==
  IF q.artifacts # <<>> /\ ~mavenCentral
    THEN "Maven Central integration is disabled"
  ELSE IF ~platformCheck(q.platform)
    THEN "Valid operating systems: [windows, linux, mac, solaris, aix]"
  ELSE IF ~archCheck(q.arch)
    THEN "Valid architectures: [x64, x32, ppc64, s390x, ppc64le, aarch64, arm]"
  ELSE IF \E i \in 1 .. Len(q.artifacts) : ~artifactCheck(q.artifacts[i])
    THEN "Invalid artifact"
  ELSE IF \E i \in 1 .. Len(q.modules) : ~moduleCheck(q.modules[i])
    THEN "Invalid module"
  ELSE IF guessEndian(q.endian, q.arch) \notin {"big", "little"}
    THEN "Valid endian types: [little, big]"
  ELSE IF q.implementation # "hotspot" /\ q.implementation # "openj9"
    THEN "Valid implementation types: [hotspot, openj9]"
  ELSE IF ~versionCheck(q.version)
    THEN "Invalid Java version"
  ELSE IF getMajorVersion(q.version).err \/ getMajorVersion(q.version).value < 9
    THEN "Invalid Java version"
  ELSE ""

\* History: a lookup that starts while another request holds the download lock.
LookupStarts(r) ==
  [underLock EXCEPT ![r] =
     IF @ = "completed" THEN @
     ELSE IF downloadLock \notin {Unlocked, r} THEN "started" ELSE "no"]

Receive(r) ==
  /\ ~crashed
  /\ pc[r] = "idle"
  /\ \E q \in RequestInputs :
       LET reason == Validate(q, MAVEN_CENTRAL)
       IN  /\ asked' = [asked EXCEPT ![r] = q]
           /\ IF reason # ""
              THEN /\ Respond(r, BadRequest(reason))
                   /\ UNCHANGED underLock
              ELSE /\ req' = [req EXCEPT ![r] = [q EXCEPT !.endian = guessEndian(q.endian, q.arch)]]
                   /\ pc' = [pc EXCEPT ![r] = "lk_read"]
                   /\ stage' = [stage EXCEPT ![r] = "target"]
                   /\ underLock' = LookupStarts(r)
                   /\ UNCHANGED <<resp, dirs, found, bin, path>>
  /\ UNCHANGED shared
  /\ UNCHANGED <<downloads, extractions, failed, last, returned, entry>>
  /\ UNCHANGED <<listed, offline>>

(***************************************************************************)
(* lookupRelease (adoptium.go:57-85).  The map is read and written without *)
(* any lock; a handler at "lk_read" or "lk_reread" is inside a map read, a *)
(* handler at "lk_write" is inside the map write.                          *)
(***************************************************************************)
LookupArch(r) == IF stage[r] = "target" THEN req[r].arch ELSE LOCAL_ARCH
LookupPlatform(r) == IF stage[r] = "target" THEN req[r].platform ELSE LOCAL_PLATFORM

Key(r) == cacheKey(LookupArch(r), LookupPlatform(r), req[r].implementation, req[r].version)

\* The handlers inside a map access, and those inside a write.
MapAccessors == { r \in Requests : pc[r] \in {"lk_read", "lk_write", "lk_reread"} }
MapWriters == { r \in Requests : pc[r] = "lk_write" }

\* What a read of metadataCache[key] can give: the stored value, or, when the
\* read overlaps a write of the same key by another handler, the value being
\* written.
ReadValues(r, key) ==
  {metadataCache[key]} \cup
  { found[w] : w \in { w \in MapWriters \ {r} : Key(w) = key } }

\* A handleRequest that starts to download as soon as its first lookup has
\* returned.
DownloadsAfterFirstLookup(r, binary) ==
  /\ bin' = [bin EXCEPT ![r][stage[r]] = binary]
  /\ found' = [found EXCEPT ![r] = NoBinary]
  /\ pc' = [pc EXCEPT ![r] = "dl_lock"]
  /\ underLock' = [underLock EXCEPT ![r] =
                     IF @ \in {"started", "completed"} THEN "completed" ELSE "no"]
  /\ UNCHANGED <<stage, resp, dirs, req, path>>

\* lookupRelease returns a binary to handleRequest (jlink.go:264-275).
LookupReturns(r, binary) ==
  /\ bin' = [bin EXCEPT ![r][stage[r]] = binary]
  /\ found' = [found EXCEPT ![r] = NoBinary]
  /\ IF stage[r] = "target"
     THEN /\ stage' = [stage EXCEPT ![r] = "local"]
          /\ pc' = [pc EXCEPT ![r] = "lk_read"]
          /\ underLock' =
               [underLock EXCEPT ![r] =
                  IF @ \in {"started", "completed"} THEN "completed"
                  ELSE IF downloadLock \notin {Unlocked, r} THEN "started" ELSE "no"]
     ELSE /\ pc' = [pc EXCEPT ![r] = "dl_lock"]
          /\ underLock' = [underLock EXCEPT ![r] =
                             IF @ \in {"started", "completed"} THEN "completed" ELSE "no"]
          /\ UNCHANGED stage
  /\ UNCHANGED <<resp, dirs, req, path>>

\* A handleRequest that calls lookupRelease again after an error.
LookupRetries(r) ==
  /\ pc' = [pc EXCEPT ![r] = "lk_read"]
  /\ found' = [found EXCEPT ![r] = NoBinary]
  /\ UNCHANGED <<resp, dirs, stage, req, bin, path, underLock>>

\* lookupRelease returns an error to handleRequest.
LookupFails(r) ==
  /\ Respond(r, BadRequest(IF stage[r] = "target"
                           THEN "Failed to find target runtime"
                           ELSE "Failed to find local runtime"))
  /\ underLock' = [underLock EXCEPT ![r] =
                     IF @ \in {"started", "completed"} THEN "completed" ELSE "no"]

\* A lookupRelease that took downloadLock for its whole body.
LookupUnderDownloadLock == downloadLock = Unlocked

\* lookupRelease takes no lock: a handler inside it is never made to wait
\* (adoptium.go:57-61; downloadLock is taken by downloadRelease alone).
LookupCanRun == TRUE

\* adoptium.go:60-63
LookupRead(r) ==
  /\ ~crashed
  /\ LookupCanRun
  /\ pc[r] = "lk_read"
  /\ \E binary \in ReadValues(r, Key(r)) :
       IF binary # NoBinary
       THEN LookupReturns(r, binary)
       ELSE /\ pc' = [pc EXCEPT ![r] = "lk_query"]
            /\ UNCHANGED <<stage, req, found, bin, path, resp, dirs, underLock>>
  /\ UNCHANGED shared
  /\ UNCHANGED <<downloads, extractions, failed, last, returned, entry>>
  /\ UNCHANGED <<asked, listed, offline>>

\* adoptium.go:65-78, 84
LookupQuery(r) ==
  /\ ~crashed
  /\ LookupCanRun
  /\ pc[r] = "lk_query"
  /\ \E reply \in IndexReplies(LookupArch(r), LookupPlatform(r),
                              req[r].implementation, req[r].version, listed) :
       IF /\ reply.err = ""
          /\ Len(reply.releases) > 0
          /\ Len(reply.releases[1].Binaries) > 0
       THEN /\ found' = [found EXCEPT ![r] = reply.releases[1].Binaries[1]]
            /\ pc' = [pc EXCEPT ![r] = "lk_write"]
            /\ UNCHANGED <<stage, req, bin, path, resp, dirs, underLock>>
       ELSE LookupFails(r)
  /\ UNCHANGED shared
  /\ UNCHANGED <<downloads, extractions, failed, last, returned, entry>>
  /\ UNCHANGED <<asked, listed, offline>>

\* adoptium.go:80
LookupWrite(r) ==
  /\ ~crashed
  /\ LookupCanRun
  /\ pc[r] = "lk_write"
  /\ metadataCache' = [metadataCache EXCEPT ![Key(r)] = found[r]]
  /\ pc' = [pc EXCEPT ![r] = "lk_reread"]
  /\ UNCHANGED <<MAVEN_CENTRAL, downloadLock, rtCache, tmpDirs, crashed>>
  /\ UNCHANGED <<stage, req, found, bin, path, dirs, resp>>
  /\ UNCHANGED history
  /\ UNCHANGED <<asked, listed, offline>>

\* adoptium.go:81
LookupReread(r) ==
  /\ ~crashed
  /\ LookupCanRun
  /\ pc[r] = "lk_reread"
  /\ \E binary \in ReadValues(r, Key(r)) : LookupReturns(r, binary)
  /\ UNCHANGED shared
  /\ UNCHANGED <<downloads, extractions, failed, last, returned, entry>>
  /\ UNCHANGED <<asked, listed, offline>>

\* Go's runtime ends the process when it detects a map write that overlaps
\* another access to the map ("fatal error: concurrent map writes",
\* "concurrent map read and map write").
MapFault ==
  /\ ~crashed
  /\ \E w \in MapWriters : MapAccessors \ {w} # {}
  /\ crashed' = TRUE
  /\ UNCHANGED <<MAVEN_CENTRAL, metadataCache, downloadLock, rtCache, tmpDirs>>
  /\ UNCHANGED <<locals, history>>
  /\ UNCHANGED <<asked, listed, offline>>

(***************************************************************************)
(* newTemporaryFile, newTemporaryDirectory (util.go:47-59): the directory  *)
(* TMP/<rand.Int()> is created with os.MkdirAll, which succeeds when the   *)
(* directory exists already.                                               *)
(***************************************************************************)
newTemporaryFile(existing, n) == existing \cup {n}

newTemporaryDirectory(existing, n) == existing \cup {n}

\* The temporary directories a handler has created and not yet removed.
HeldDirs(r) == {dirs[r].dl, dirs[r].mc, dirs[r].out, dirs[r].ar} \ {NoDir}

(***************************************************************************)
(* downloadRelease (adoptium.go:89-132).                                   *)
(***************************************************************************)
DlBinary(r) == bin[r][stage[r]]
DlPath(r) == runtimePath(DlBinary(r))

\* A cache hit that returned the cache directory itself, without "/jdk-" + version.
CacheDirectoryItself(binary, version) == runtimePath(binary)

\* filepath.FromSlash(runtimePath + "/jdk-" + version), adoptium.go:97
CachedHandle(binary, version) == runtimePath(binary) \o << <<"jdk-">> \o version >>

\* filepath.FromSlash(runtimePath + "/jdk-" + version), adoptium.go:131
ExtractedHandle(binary, version) == runtimePath(binary) \o << <<"jdk-">> \o version >>

\* A downloadRelease that did not take downloadLock.
NoDownloadLock == TRUE

\* downloadLock.Lock() returns only when no other goroutine holds the mutex.
LockAvailable == downloadLock = Unlocked

\* A downloadRelease that skipped the os.Stat of the cache directory.
NeverCached(cache, d) == FALSE

\* os.Stat(runtimePath): !os.IsNotExist(e)
IsCached(cache, d) == cache[d] # "absent"

\* A download that streamed the archive into the cache directory.
FetchedIntoCache(cache, d) == [cache EXCEPT ![d] = "partial"]

\* A failed extraction whose directory was left as it is (no os.RemoveAll).
ExtractionLeftBehind(cache, d) == cache

\* The download failed: downloadRelease returns before anything is written
\* under RT_CACHE; the archive was going to the temporary directory
\* (adoptium.go:100-123).
FetchFailed(cache, d) == cache

\* archiver.Unarchive failed: os.RemoveAll(runtimePath), adoptium.go:126-129
ExtractionFailed(cache, d) == [cache EXCEPT ![d] = "absent"]

\* What the deferred calls do when downloadRelease returns: the archive's
\* directory is removed and the lock is released (adoptium.go:91, 101).
DlDeferred(r) ==
  /\ downloadLock' = Unlocked
  /\ tmpDirs' = RemoveAll(tmpDirs, {dirs[r].dl} \ {NoDir})
  /\ entry' = [entry EXCEPT ![r] = NoEntry]
  /\ underLock' = [x \in Requests |-> "no"]

\* downloadRelease returns a handle; handleRequest goes on (jlink.go:278-291).
DlReturns(r, handle, how) ==
  /\ DlDeferred(r)
  /\ path' = [path EXCEPT ![r][stage[r]] = handle]
  /\ last' = [last EXCEPT ![DlPath(r)] = how]
  /\ returned' = [returned EXCEPT ![DlPath(r)] = @ \cup {handle}]
  /\ dirs' = [dirs EXCEPT ![r].dl = NoDir]
  /\ IF stage[r] = "local"
     THEN /\ stage' = [stage EXCEPT ![r] = "target"]
          /\ pc' = [pc EXCEPT ![r] = "dl_lock"]
     ELSE /\ pc' = [pc EXCEPT ![r] = "mc_dir"]
          /\ UNCHANGED stage
  /\ UNCHANGED <<req, found, bin, resp, failed>>

\* A downloadRelease whose error returns leave the mutex locked.
DlFailsLocked(r, how) ==
  /\ UNCHANGED downloadLock
  /\ tmpDirs' = RemoveAll(tmpDirs, {dirs[r].dl} \ {NoDir})
  /\ entry' = [entry EXCEPT ![r] = NoEntry]
  /\ underLock' = [x \in Requests |-> "no"]
  /\ last' = [last EXCEPT ![DlPath(r)] = how]
  /\ failed' = [failed EXCEPT ![DlPath(r)] = TRUE]
  /\ Respond(r, BadRequest(IF stage[r] = "local"
                           THEN "Failed to download local runtime"
                           ELSE "Failed to download target runtime"))
  /\ UNCHANGED returned

\* downloadRelease returns an error; handleRequest answers 400.
DlFails(r, how) ==
  /\ DlDeferred(r)
  /\ last' = [last EXCEPT ![DlPath(r)] = how]
  /\ failed' = [failed EXCEPT ![DlPath(r)] = TRUE]
  /\ Respond(r, BadRequest(IF stage[r] = "local"
                           THEN "Failed to download local runtime"
                           ELSE "Failed to download target runtime"))
  /\ UNCHANGED returned

\* adoptium.go:90
DlLock(r) ==
  /\ ~crashed
  /\ pc[r] = "dl_lock"
  /\ LockAvailable
  /\ downloadLock' = r
  /\ entry' = [entry EXCEPT ![r] = rtCache]
  /\ pc' = [pc EXCEPT ![r] = "dl_stat"]
  /\ UNCHANGED <<MAVEN_CENTRAL, metadataCache, rtCache, tmpDirs, crashed>>
  /\ UNCHANGED <<stage, req, found, bin, path, dirs, resp>>
  /\ UNCHANGED <<downloads, extractions, failed, last, returned, underLock>>
  /\ UNCHANGED <<asked, listed, offline>>

\* adoptium.go:93-101
DlStat(r) ==
  /\ ~crashed
  /\ pc[r] = "dl_stat"
  /\ IF IsCached(rtCache, DlPath(r))
     THEN /\ DlReturns(r, CachedHandle(DlBinary(r), req[r].version), "hit")
     ELSE /\ \E n \in RandInts :
               /\ tmpDirs' = newTemporaryFile(tmpDirs, n)
               /\ dirs' = [dirs EXCEPT ![r].dl = n]
          /\ pc' = [pc EXCEPT ![r] = "dl_fetch"]
          /\ UNCHANGED <<downloadLock, stage, req, found, bin, path, resp>>
          /\ UNCHANGED <<failed, last, returned, entry, underLock>>
  /\ UNCHANGED <<MAVEN_CENTRAL, metadataCache, rtCache, crashed>>
  /\ UNCHANGED <<downloads, extractions>>
  /\ UNCHANGED <<asked, listed, offline>>

\* How the download of the archive can end: adoptium.Get fails (105-108), the
\* status is not 200 (109-111), os.Create fails (114-117), io.Copy fails
\* (120-123), or the archive is on disk.
FetchOutcomes == {"transport", "status", "create", "copy", "ok"}

\* adoptium.go:103-123
DlFetch(r) ==
  /\ ~crashed
  /\ pc[r] = "dl_fetch"
  /\ downloads' = [downloads EXCEPT ![DlPath(r)] = @ + 1]
  /\ \E outcome \in FetchOutcomes :
       \* os.Create needs the directory of the archive
       /\ outcome \in {"copy", "ok"} => dirs[r].dl \in tmpDirs
       /\ IF outcome = "ok"
          THEN /\ pc' = [pc EXCEPT ![r] = "dl_extract"]
               /\ UNCHANGED <<downloadLock, rtCache, tmpDirs>>
               /\ UNCHANGED <<stage, req, found, bin, path, dirs, resp>>
               /\ UNCHANGED <<failed, last, returned, entry, underLock>>
          ELSE /\ rtCache' = FetchFailed(rtCache, DlPath(r))
               /\ DlFails(r, "fetch_failed")
  /\ UNCHANGED <<MAVEN_CENTRAL, metadataCache, crashed>>
  /\ UNCHANGED extractions
  /\ UNCHANGED <<asked, listed, offline>>

\* adoptium.go:126: archiver.Unarchive starts to write under runtimePath.
DlExtract(r) ==
  /\ ~crashed
  /\ pc[r] = "dl_extract"
  /\ rtCache' = [rtCache EXCEPT ![DlPath(r)] = "partial"]
  /\ extractions' = [extractions EXCEPT ![DlPath(r)] = @ + 1]
  /\ pc' = [pc EXCEPT ![r] = "dl_extracting"]
  /\ UNCHANGED <<MAVEN_CENTRAL, metadataCache, downloadLock, tmpDirs, crashed>>
  /\ UNCHANGED <<stage, req, found, bin, path, dirs, resp>>
  /\ UNCHANGED <<downloads, failed, last, returned, entry, underLock>>
  /\ UNCHANGED <<asked, listed, offline>>

\* adoptium.go:126-131: archiver.Unarchive ends.
DlExtracted(r) ==
  /\ ~crashed
  /\ pc[r] = "dl_extracting"
  /\ \/ /\ rtCache' = [rtCache EXCEPT ![DlPath(r)] = "complete"]
        /\ DlReturns(r, ExtractedHandle(DlBinary(r), req[r].version), "extracted")
     \/ /\ rtCache' = ExtractionFailed(rtCache, DlPath(r))
        /\ DlFails(r, "extract_failed")
  /\ UNCHANGED <<MAVEN_CENTRAL, metadataCache, crashed>>
  /\ UNCHANGED <<downloads, extractions>>
  /\ UNCHANGED <<asked, listed, offline>>

(***************************************************************************)
(* handleRequest after the downloads (jlink.go:293-316) and jlink          *)
(* (jlink.go:320-421).                                                     *)
(***************************************************************************)
\* A jlink whose two defers both saw the last value of dir.
LastDirOnly(out, ar) == {ar} \ {NoDir}

\* The directories removed by the deferred calls of jlink (jlink.go:337, 402):
\* each defer is given the value dir holds when the defer statement runs.
JlinkDeferred(out, ar) == {out, ar} \ {NoDir}

\* The directory removed by the deferred call of handleRequest (jlink.go:295).
HandlerDeferred(mc) == {mc} \ {NoDir}

\* jlink returns an error: handleRequest answers 400 and returns.
JlinkFails(r, existing, out, ar) ==
  /\ tmpDirs' = RemoveAll(RemoveAll(existing, JlinkDeferred(out, ar)),
                          HandlerDeferred(dirs[r].mc))
  /\ Respond(r, BadRequest("Failed to generate runtime"))

\* jlink.go:294-295
McDir(r) ==
  /\ ~crashed
  /\ pc[r] = "mc_dir"
  /\ \E n \in RandInts :
       /\ tmpDirs' = newTemporaryDirectory(tmpDirs, n)
       /\ dirs' = [dirs EXCEPT ![r].mc = n]
  /\ pc' = [pc EXCEPT ![r] = "artifacts"]
  /\ UNCHANGED <<MAVEN_CENTRAL, metadataCache, downloadLock, rtCache, crashed>>
  /\ UNCHANGED <<stage, req, found, bin, path, resp>>
  /\ UNCHANGED history
  /\ UNCHANGED <<asked, listed, offline>>

\* jlink.go:298-302: downloadArtifacts returns nil for an empty list; with
\* coordinates it returns nil or the first error.
Artifacts(r) ==
  /\ ~crashed
  /\ pc[r] = "artifacts"
  /\ \E ok \in BOOLEAN :
       /\ req[r].artifacts = <<>> => ok
       /\ IF ok
          THEN /\ pc' = [pc EXCEPT ![r] = "jl_start"]
               /\ UNCHANGED <<tmpDirs, dirs, resp>>
               /\ UNCHANGED <<stage, req, found, bin, path>>
          ELSE /\ tmpDirs' = RemoveAll(tmpDirs, HandlerDeferred(dirs[r].mc))
               /\ Respond(r, BadRequest("Failed to download Maven Central artifacts"))
  /\ UNCHANGED <<MAVEN_CENTRAL, metadataCache, downloadLock, rtCache, crashed>>
  /\ UNCHANGED history
  /\ UNCHANGED <<asked, listed, offline>>

\* jlink.go:324-376: the output directory is created, then the module
\* directory of the target runtime is looked for and the linking tool is made
\* executable.
JlStart(r) ==
  /\ ~crashed
  /\ pc[r] = "jl_start"
  /\ \E n \in RandInts, outcome \in {"stat", "chmod", "ok"} :
       IF outcome = "ok"
       THEN /\ tmpDirs' = newTemporaryFile(tmpDirs, n)
            /\ dirs' = [dirs EXCEPT ![r].out = n]
            /\ pc' = [pc EXCEPT ![r] = "jl_run"]
            /\ UNCHANGED <<stage, req, found, bin, path, resp>>
       ELSE JlinkFails(r, newTemporaryFile(tmpDirs, n), n, NoDir)
  /\ UNCHANGED <<MAVEN_CENTRAL, metadataCache, downloadLock, rtCache, crashed>>
  /\ UNCHANGED history
  /\ UNCHANGED <<asked, listed, offline>>

\* jlink.go:378-402: the linking tool runs; then the archive's directory is
\* created.
JlRun(r) ==
  /\ ~crashed
  /\ pc[r] = "jl_run"
  /\ \/ JlinkFails(r, tmpDirs, dirs[r].out, NoDir)
     \/ /\ \E n \in RandInts :
             /\ tmpDirs' = newTemporaryFile(tmpDirs, n)
             /\ dirs' = [dirs EXCEPT ![r].ar = n]
        /\ pc' = [pc EXCEPT ![r] = "jl_archive"]
        /\ UNCHANGED <<stage, req, found, bin, path, resp>>
  /\ UNCHANGED <<MAVEN_CENTRAL, metadataCache, downloadLock, rtCache, crashed>>
  /\ UNCHANGED history
  /\ UNCHANGED <<asked, listed, offline>>

\* jlink.go:404-420 and 312-315: the legal directory is removed, the output
\* is archived and read; handleRequest sends it.
JlArchive(r) ==
  /\ ~crashed
  /\ pc[r] = "jl_archive"
  /\ \E outcome \in {"archive", "open", "ok"} :
       IF outcome = "ok"
       THEN /\ tmpDirs' = RemoveAll(RemoveAll(tmpDirs, JlinkDeferred(dirs[r].out, dirs[r].ar)),
                                    HandlerDeferred(dirs[r].mc))
            /\ Respond(r, Success(bin[r].target.Package.Name))
       ELSE JlinkFails(r, tmpDirs, dirs[r].out, dirs[r].ar)
  /\ UNCHANGED <<MAVEN_CENTRAL, metadataCache, downloadLock, rtCache, crashed>>
  /\ UNCHANGED history
  /\ UNCHANGED <<asked, listed, offline>>

(***************************************************************************)
(* The service.                                                            *)
(***************************************************************************)
Next ==
  \/ \E r \in Requests : Receive(r)
  \/ \E r \in Requests : LookupRead(r)
  \/ \E r \in Requests : LookupQuery(r)
  \/ \E r \in Requests : LookupWrite(r)
  \/ \E r \in Requests : LookupReread(r)
  \/ MapFault
  \/ \E r \in Requests : DlLock(r)
  \/ \E r \in Requests : DlStat(r)
  \/ \E r \in Requests : DlFetch(r)
  \/ \E r \in Requests : DlExtract(r)
  \/ \E r \in Requests : DlExtracted(r)
  \/ \E r \in Requests : McDir(r)
  \/ \E r \in Requests : Artifacts(r)
  \/ \E r \in Requests : JlStart(r)
  \/ \E r \in Requests : JlRun(r)
  \/ \E r \in Requests : JlArchive(r)

Spec == Init /\ [][Next]_vars

(***************************************************************************)
(* The runtime cache on its own: every request has passed its checks and   *)
(* both of its lookups (jlink.go:264-275) and stands before                *)
(* downloadRelease(local, version); it then calls downloadRelease(target,  *)
(* version) (jlink.go:278-291).                                            *)
(***************************************************************************)
\* The requests that pass every check, with the endian handleRequest settles on.
AcceptedInputs ==
  { [q EXCEPT !.endian = guessEndian(q.endian, q.arch)] :
      q \in { x \in RequestInputs : Validate(x, FALSE) = "" } }

TargetBinary(q) == Binary(q.arch, q.platform, q.implementation, 1)
LocalBinary(q) == Binary(LOCAL_ARCH, LOCAL_PLATFORM, q.implementation, 1)

\* The map after the lookups of the requests q[1], q[2], ...
Looked(q) ==
  [k \in CacheKeys |->
     IF \E r \in Requests :
          k = cacheKey(q[r].arch, q[r].platform, q[r].implementation, q[r].version)
     THEN LET r == CHOOSE r \in Requests :
                     k = cacheKey(q[r].arch, q[r].platform, q[r].implementation, q[r].version)
          IN  TargetBinary(q[r])
     ELSE IF \E r \in Requests :
               k = cacheKey(LOCAL_ARCH, LOCAL_PLATFORM, q[r].implementation, q[r].version)
     THEN LET r == CHOOSE r \in Requests :
                     k = cacheKey(LOCAL_ARCH, LOCAL_PLATFORM, q[r].implementation, q[r].version)
          IN  LocalBinary(q[r])
     ELSE NoBinary]

StoreInit ==
  /\ MAVEN_CENTRAL = FALSE
  /\ req \in [Requests -> AcceptedInputs]
  /\ metadataCache = Looked(req)
  /\ downloadLock = Unlocked
  /\ rtCache = [d \in RuntimePaths |-> "absent"]
  /\ tmpDirs = {}
  /\ crashed = FALSE
  /\ pc = [r \in Requests |-> "dl_lock"]
  /\ stage = [r \in Requests |-> "local"]
  /\ found = [r \in Requests |-> NoBinary]
  /\ bin = [r \in Requests |-> [target |-> TargetBinary(req[r]), local |-> LocalBinary(req[r])]]
  /\ path = [r \in Requests |-> [target |-> NoPath, local |-> NoPath]]
  /\ dirs = [r \in Requests |-> NoDirs]
  /\ resp = [r \in Requests |-> NoResponse]
  /\ downloads = [d \in RuntimePaths |-> 0]
  /\ extractions = [d \in RuntimePaths |-> 0]
  /\ failed = [d \in RuntimePaths |-> FALSE]
  /\ last = [d \in RuntimePaths |-> "none"]
  /\ returned = [d \in RuntimePaths |-> {}]
  /\ entry = [r \in Requests |-> NoEntry]
  /\ underLock = [r \in Requests |-> "no"]
  /\ asked = [r \in Requests |-> req[r]]
  /\ listed = {1}
  /\ Offline

StoreNext ==
  \/ \E r \in Requests : DlLock(r)
  \/ \E r \in Requests : DlStat(r)
  \/ \E r \in Requests : DlFetch(r)
  \/ \E r \in Requests : DlExtract(r)
  \/ \E r \in Requests : DlExtracted(r)

SpecStore == StoreInit /\ [][StoreNext]_vars

(***************************************************************************)
(* The runtime cache: claims C1 to C6, checked under SpecStore.            *)
(***************************************************************************)
DlPcs == {"dl_lock", "dl_stat", "dl_fetch", "dl_extract", "dl_extracting"}

\* The calls of downloadRelease for the cache directory d that have not returned.
CallsInProgress(d) == { r \in Requests : pc[r] \in DlPcs /\ DlPath(r) = d }

\* The requests whose calls of downloadRelease are all still to be made or
\* not returned.
CallsToCome(d) ==
  { r \in Requests : pc[r] \in DlPcs /\ stage[r] = "local" /\ runtimePath(bin[r].target) = d }

Settled(d) == last[d] # "none" /\ CallsInProgress(d) = {} /\ CallsToCome(d) = {}

OneDownloadOneHandle(d) ==
  /\ downloads[d] = 1
  /\ extractions[d] = 1
  /\ Cardinality(returned[d]) = 1
  /\ rtCache[d] = "complete"

InSection(r) == pc[r] \in {"dl_stat", "dl_fetch", "dl_extract", "dl_extracting"}

\* C2: at most one handler is between downloadLock.Lock() and the return of
\* downloadRelease, whatever the cache directories of the calls are.
C2_OneInSection ==
  /\ Cardinality({ r \in Requests : InSection(r) }) <= 1
  /\ \A r \in Requests : InSection(r) => downloadLock = r

\* A handler downloads or extracts while a call for another directory waits.
C2_Witness ==
  \E r1, r2 \in Requests :
    /\ pc[r1] \in {"dl_fetch", "dl_extracting"}
    /\ pc[r2] = "dl_lock"
    /\ DlPath(r1) # DlPath(r2)

\* C3: when downloadLock is free, every directory under RT_CACHE that exists
\* is a complete extraction.
C3_NoHalfExtracted ==
  downloadLock = Unlocked => \A d \in RuntimePaths : rtCache[d] \in {"absent", "complete"}

\* The lock is free after an extraction failed for one directory and a call
\* for another directory failed before a later one succeeded.
C3_Witness ==
  /\ downloadLock = Unlocked
  /\ \E d1, d2 \in RuntimePaths :
       /\ last[d1] = "extract_failed" /\ rtCache[d1] = "absent"
       /\ failed[d2] /\ rtCache[d2] = "complete"

\* C4: the step in which downloadRelease returns the error of a failed
\* extraction leaves no cache directory, and a call that follows a failed
\* extraction does not return at the os.Stat: it goes on to the download.
C4_FailedExtractionRemoved ==
  [][ /\ \A r \in Requests :
           (pc[r] = "dl_extracting" /\ pc'[r] = "done") => rtCache'[DlPath(r)] = "absent"
      /\ \A r \in Requests :
           (pc[r] = "dl_stat" /\ last[DlPath(r)] = "extract_failed")
              => pc'[r] \in {"dl_stat", "dl_fetch"} ]_vars

\* A call downloads again after the extraction of an earlier call failed.
C4_Witness ==
  \E r \in Requests :
    pc[r] = "dl_extracting" /\ last[DlPath(r)] = "extract_failed" /\ downloads[DlPath(r)] = 2

\* C5: the step in which downloadRelease returns the error of a failed
\* download answers the request with an error, leaves the directories under
\* RT_CACHE as they were when the call started, and the directory of the call
\* is not among them.
C5_FailedDownloadLeavesCache ==
  [][ \A r \in Requests :
        (pc[r] = "dl_fetch" /\ pc'[r] = "done")
          => /\ resp'[r].code = 400
             /\ rtCache' = entry[r]
             /\ rtCache'[DlPath(r)] = "absent" ]_vars

\* A download failed while another directory was in the cache.
C5_Witness ==
  \E d1, d2 \in RuntimePaths :
    last[d1] = "fetch_failed" /\ rtCache[d1] = "absent" /\ rtCache[d2] = "complete"

C7_TemporariesRemoved ==
  [][ \A r \in Requests :
        /\ (pc[r] # "done" /\ pc'[r] = "done") => HeldDirs(r) \cap tmpDirs' = {}
        /\ (pc[r] \in DlPcs /\ pc'[r] \notin DlPcs) => dirs[r].dl \notin tmpDirs' ]_vars

\* One request was answered with its runtime and another failed to download
\* its artifacts, and no temporary directory is left.
C7_Witness ==
  /\ tmpDirs = {}
  /\ \E r1, r2 \in Requests :
       /\ resp[r1].code = 200
       /\ resp[r2].reason = "Failed to download Maven Central artifacts"

\* C8, as stated: no temporary directory is held by two running handlers.
C8_DirectoriesNotShared ==
  \A r1, r2 \in Requests : r1 # r2 => HeldDirs(r1) \cap HeldDirs(r2) = {}

\* C9, as stated: while a handler writes metadataCache, no other handler
\* reads or writes it.
C9_MapSerialized ==
  \A w \in MapWriters : MapAccessors \ {w} = {}

LookupPcs == {"lk_read", "lk_query", "lk_write", "lk_reread"}

\* C10: a handler inside lookupRelease can always take its next step, whoever
\* holds downloadLock.
C10_LookupNeverWaits ==
  \A r \in Requests :
    (pc[r] \in LookupPcs /\ ~crashed)
      => ENABLED (LookupRead(r) \/ LookupQuery(r) \/ LookupWrite(r) \/ LookupReread(r))

\* A lookup started and returned while another request held downloadLock
\* with its download in flight.
C10_Witness ==
  \E r1, r2 \in Requests :
    /\ underLock[r1] = "completed"
    /\ downloadLock = r2
    /\ r1 # r2
    /\ pc[r2] = "dl_fetch"

(***************************************************************************)
(* The release map on its own: every request has passed its checks and     *)
(* stands before lookupRelease for its target (jlink.go:264); its second   *)
(* lookup is for the local runtime (jlink.go:271).  Meanwhile the upstream *)
(* index comes to list further builds.                                     *)
(***************************************************************************)
LookupInit ==
  /\ MAVEN_CENTRAL = FALSE
  /\ req \in [Requests -> AcceptedInputs]
  /\ metadataCache = [k \in CacheKeys |-> NoBinary]
  /\ downloadLock = Unlocked
  /\ rtCache = [d \in RuntimePaths |-> "absent"]
  /\ tmpDirs = {}
  /\ crashed = FALSE
  /\ pc = [r \in Requests |-> "lk_read"]
  /\ stage = [r \in Requests |-> "target"]
  /\ found = [r \in Requests |-> NoBinary]
  /\ bin = [r \in Requests |-> [target |-> NoBinary, local |-> NoBinary]]
  /\ path = [r \in Requests |-> [target |-> NoPath, local |-> NoPath]]
  /\ dirs = [r \in Requests |-> NoDirs]
  /\ resp = [r \in Requests |-> NoResponse]
  /\ downloads = [d \in RuntimePaths |-> 0]
  /\ extractions = [d \in RuntimePaths |-> 0]
  /\ failed = [d \in RuntimePaths |-> FALSE]
  /\ last = [d \in RuntimePaths |-> "none"]
  /\ returned = [d \in RuntimePaths |-> {}]
  /\ entry = [r \in Requests |-> NoEntry]
  /\ underLock = [r \in Requests |-> "no"]
  /\ asked = [r \in Requests |-> req[r]]
  /\ listed = {1}
  /\ Offline

\* No request has come in.
NoService ==
  /\ MAVEN_CENTRAL = FALSE
  /\ metadataCache = [k \in CacheKeys |-> NoBinary]
  /\ downloadLock = Unlocked
  /\ rtCache = [d \in RuntimePaths |-> "absent"]
  /\ tmpDirs = {}
  /\ crashed = FALSE
  /\ pc = [r \in Requests |-> "idle"]
  /\ stage = [r \in Requests |-> "target"]
  /\ req = [r \in Requests |-> NoRequest]
  /\ found = [r \in Requests |-> NoBinary]
  /\ bin = [r \in Requests |-> [target |-> NoBinary, local |-> NoBinary]]
  /\ path = [r \in Requests |-> [target |-> NoPath, local |-> NoPath]]
  /\ dirs = [r \in Requests |-> NoDirs]
  /\ resp = [r \in Requests |-> NoResponse]
  /\ downloads = [d \in RuntimePaths |-> 0]
  /\ extractions = [d \in RuntimePaths |-> 0]
  /\ failed = [d \in RuntimePaths |-> FALSE]
  /\ last = [d \in RuntimePaths |-> "none"]
  /\ returned = [d \in RuntimePaths |-> {}]
  /\ entry = [r \in Requests |-> NoEntry]
  /\ underLock = [r \in Requests |-> "no"]
  /\ asked = [r \in Requests |-> NoRequest]
  /\ listed = {1}

service == <<shared, locals, history, asked, listed>>

\* A further build is published upstream.
Publish ==
  /\ \E b \in Builds \ listed : listed' = listed \cup {b}
  /\ UNCHANGED <<shared, locals, history, asked, offline>>

LookupNext ==
  \/ \E r \in Requests : LookupRead(r)
  \/ \E r \in Requests : LookupQuery(r)
  \/ \E r \in Requests : LookupWrite(r)
  \/ \E r \in Requests : LookupReread(r)
  \/ MapFault
  \/ Publish

SpecLookup == LookupInit /\ [][LookupNext]_vars

\* C11, as stated: a value held by metadataCache for a key stays as it is in
\* every step, or is replaced by a binary of a strictly greater build.
C11_CachedValueOnlyNewer ==
  [][ \A k \in CacheKeys :
        metadataCache[k] # NoBinary
          => \/ metadataCache'[k] = metadataCache[k]
             \/ BuildOf(metadataCache'[k]) > BuildOf(metadataCache[k]) ]_vars

(***************************************************************************)
(* The version parameter: claims C12 and C13, checked under Spec.          *)
(***************************************************************************)
\* 1a3 is no version; 8 is one, below the first version with a linking tool.
InvalidTokens == { <<"1", "a", "3">>, <<"8">> }
SymbolicTokens == { <<"l", "t", "s">>, <<"e", "a">>, <<"g", "a">> }

\* Nothing but the version can be held against the request.
OtherwiseValid(q, mc) ==
  /\ q.artifacts = <<>> \/ mc
  /\ platformCheck(q.platform)
  /\ archCheck(q.arch)
  /\ \A i \in 1 .. Len(q.artifacts) : artifactCheck(q.artifacts[i])
  /\ \A i \in 1 .. Len(q.modules) : moduleCheck(q.modules[i])
  /\ q.endian \in {"", "big", "little"}
  /\ q.implementation \in {"hotspot", "openj9"}

\* C12: a request whose version is no version, or is below 9, is never inside
\* a lookup, a download or the artifact resolution: its handler has returned
\* with a 400, and when nothing else is wrong with the request the reason is
\* "Invalid Java version".
C12_InvalidVersionRejected ==
  \A r \in Requests :
    (pc[r] # "idle" /\ asked[r].version \in InvalidTokens)
      => /\ pc[r] = "done"
         /\ resp[r].code = 400
         /\ OtherwiseValid(asked[r], MAVEN_CENTRAL) => resp[r].reason = "Invalid Java version"

\* One request came with 1a3 and one with 8, and both were told so.
C12_Witness ==
  \E r1, r2 \in Requests :
    /\ asked[r1].version = <<"1", "a", "3">> /\ resp[r1].reason = "Invalid Java version"
    /\ asked[r2].version = <<"8">> /\ resp[r2].reason = "Invalid Java version"

\* C13, as stated: a request with the version lts, ea or ga and nothing wrong
\* otherwise is not turned away as an invalid version.
C13_SymbolicTokensAccepted ==
  \A r \in Requests :
    (asked[r].version \in SymbolicTokens /\ OtherwiseValid(asked[r], MAVEN_CENTRAL))
      => resp[r].reason # "Invalid Java version"

(***************************************************************************)
(* versionCheck and getMajorVersion on their own (jlink.go:197, 251-258):  *)
(* the string is any string over a few characters, or one of the strings   *)
(* of TestVersionRegex.                                                    *)
(***************************************************************************)
MaxTokenLen == 5

TokenChars == {"0", "1", "9", ".", "+", "a"}

\* jlink_test.go:175-187
TestAccepted ==
  { <<"9">>, <<"9", "+", "1">>, <<"9", ".", "1">>, <<"9", ".", "0", ".", "1">>,
    <<"9", ".", "0", ".", "1", "+", "1", "1">>,
    <<"9", ".", "0", ".", "1", "+", "1", "1", ".", "2">> }
TestRejected ==
  { <<"9", ".", "0", ".", "0">>, <<"9", ".">>, <<"9", "+">>, <<"9", ".", "+", "1">>,
    <<".", "9">>, <<"0", "9">> }

Tokens ==
  UNION { [1 .. n -> TokenChars] : n \in 0 .. MaxTokenLen } \cup TestAccepted \cup TestRejected

VersionInit ==
  /\ NoService
  /\ NoCompare
  /\ NoRoute
  /\ NoCacheRun
  /\ checkedToken \in Tokens
  /\ checkResult = NoVerdict
  /\ NoLink
  /\ NoResolver

\* jlink.go:251, 257
CheckVersion ==
  /\ ~checkResult.done
  /\ checkResult' = [match |-> versionCheck(checkedToken),
                     major |-> getMajorVersion(checkedToken).value,
                     err |-> getMajorVersion(checkedToken).err,
                     done |-> TRUE]
  /\ UNCHANGED <<service, looked, buckets, routed, compared, checkedToken, requested, addModules, environ, determined, jl, sent, resolver>>

VersionNext == CheckVersion

SpecVersion == VersionInit /\ [][VersionNext]_vars

\* A component of a version: a decimal integer, not written with a leading zero.
IsComponent(c) ==
  /\ c # <<>>
  /\ \A i \in 1 .. Len(c) : c[i] \in Digits
  /\ Len(c) > 1 => c[1] # "0"

\* A part of a version: components separated by ".", the first and the last
\* not zero.
IsPart(p) ==
  LET c == Split(p, ".")
  IN  /\ \A i \in 1 .. Len(c) : IsComponent(c[i])
      /\ c[1] # <<"0">>
      /\ c[Len(c)] # <<"0">>

\* A base part, then possibly "+" and a build part.
IsVersion(s) ==
  LET p == Split(s, "+")
  IN  /\ Len(p) \in {1, 2}
      /\ \A i \in 1 .. Len(p) : IsPart(p[i])

\* C14: versionCheck matches a string exactly when it is a base part,
\* possibly followed by "+" and a build part, each part a list of decimal
\* integers separated by ".", none empty, none with a leading zero, the first
\* and the last not zero; it matches 9, 9+1, 9.1, 9.0.1, 9.0.1+11 and
\* 9.0.1+11.2 and does not match 9.0.0, "9.", "9+", "9.+1", ".9" and 09.
C14_VersionGrammar ==
  checkResult.done
    => /\ checkResult.match <=> IsVersion(checkedToken)
       /\ checkedToken \in TestAccepted => checkResult.match
       /\ checkedToken \in TestRejected => ~checkResult.match

\* 9.0.1+11.2 was matched.
C14_Witness ==
  /\ checkResult.done
  /\ checkResult.match
  /\ checkedToken = <<"9", ".", "0", ".", "1", "+", "1", "1", ".", "2">>

(***************************************************************************)
(* downloadArtifacts on its own (maven_central.go:115-203).  A coordinate  *)
(* is a string; a group, an artifact and a version are strings of one      *)
(* character or more.  Maven Central is a fixed repository of POMs.        *)
(***************************************************************************)
MaxArtifacts == 2
MaxCalls == 2
MaxDepth == 6

\* fmt.Sprintf("%s:%s:%s", groupId, artifactId, version)
CoordinateOf(groupId, artifactId, version) ==
  groupId \o <<":">> \o artifactId \o <<":">> \o version

\* A <dependency> element of a POM (mavenDependency).
Dep(groupId, artifactId, version, scope) ==
  [GroupId |-> groupId, ArtifactId |-> artifactId, Version |-> version, Scope |-> scope]

\* The POMs Maven Central serves, by group, artifact and version: a diamond
\* below g:a:1 with a test dependency, g:d:1 listed twice by g:c:1, a cycle
\* through g:x:1, g:y:1 and g:z:1, a version holding a colon below g:m:1, and
\* h:a:1, which shares artifact and version with g:a:1.
Repository(groupId, artifactId, version) ==
  IF groupId = <<"g">> /\ version = <<"1">>
  THEN CASE artifactId = <<"a">> ->
              << Dep(<<"g">>, <<"b">>, <<"1">>, "compile"),
                 Dep(<<"g">>, <<"t">>, <<"1">>, "test"),
                 Dep(<<"g">>, <<"c">>, <<"1">>, "") >>
         [] artifactId = <<"b">> -> << Dep(<<"g">>, <<"d">>, <<"1">>, "runtime") >>
         [] artifactId = <<"c">> ->
              << Dep(<<"g">>, <<"d">>, <<"1">>, ""), Dep(<<"g">>, <<"d">>, <<"1">>, "") >>
         [] artifactId = <<"t">> -> << Dep(<<"g">>, <<"u">>, <<"1">>, "") >>
         [] artifactId = <<"x">> -> << Dep(<<"g">>, <<"y">>, <<"1">>, "") >>
         [] artifactId = <<"y">> -> << Dep(<<"g">>, <<"z">>, <<"1">>, "") >>
         [] artifactId = <<"z">> -> << Dep(<<"g">>, <<"x">>, <<"1">>, "") >>
         [] artifactId = <<"m">> ->
              << Dep(<<"g">>, <<"d">>, <<"1">>, ""),
                 Dep(<<"g">>, <<"n">>, <<"1", ":", "2">>, ""),
                 Dep(<<"g">>, <<"u">>, <<"1">>, "") >>
         [] OTHER -> <<>>
  ELSE <<>>

\* The coordinates a caller passes.
Requestable ==
  { CoordinateOf(<<"g">>, <<"a">>, <<"1">>), CoordinateOf(<<"h">>, <<"a">>, <<"1">>),
    CoordinateOf(<<"g">>, <<"c">>, <<"1">>), CoordinateOf(<<"g">>, <<"t">>, <<"1">>),
    CoordinateOf(<<"g">>, <<"x">>, <<"1">>), CoordinateOf(<<"g">>, <<"m">>, <<"1">>),
    <<"g", ":", "d">>, <<"g", ":", "u", ":", "1", ":", "2">> }

ArtifactLists == UNION { [1 .. n -> Requestable] : n \in 0 .. MaxArtifacts }

\* fmt.Sprintf("%s/%s-%s.jar", output, gav[1], gav[2]), below the output
\* directory.
JarPath(gav) == gav[2] \o <<"-">> \o gav[3] \o <<".jar">>

\* The URL below https://repo1.maven.org/maven2/ (the groups here hold no dot
\* for strings.ReplaceAll to replace).
Url(gav, ext) == <<gav[1], "/", gav[2], "/", gav[3], "/">> \o gav[2] \o <<"-">> \o gav[3] \o <<ext>>

\* An os.Stat that never finds the file.
NeverExists(dir, name) == FALSE

\* maven_central.go:123: os.Stat does not say that the file is missing.
JarExists(dir, name) == \E f \in dir : f.name = name

\* A download that leaves no file behind.
NotStored(dir, name, url, whole) == dir

\* downloadArtifact, maven_central.go:191-200: os.Create, then io.Copy.
Stored(dir, name, url, whole) ==
  { f \in dir : f.name # name } \cup { [name |-> name, from |-> url, whole |-> whole] }

\* A length check that lets longer coordinates through.
AtLeastThree(gav) == Len(gav) >= 3

\* maven_central.go:118
WellFormed(gav) == Len(gav) = 3

RECURSIVE DepArtifacts(_)
\* maven_central.go:138-145
DepArtifacts(dependencies) ==
  IF dependencies = <<>> THEN <<>>
  ELSE LET dep == Head(dependencies)
       IN  IF dep.Scope = "test" THEN DepArtifacts(Tail(dependencies))
           ELSE <<CoordinateOf(dep.GroupId, dep.ArtifactId, dep.Version)>>
                  \o DepArtifacts(Tail(dependencies))

Frame(artifacts) == [artifacts |-> artifacts, i |-> 1, at |-> "stat"]

\* The innermost call and the coordinate its loop is at.
Top == callStack[Len(callStack)]
InLoop == callStack # <<>> /\ Top.i <= Len(Top.artifacts)
Artifact == Top.artifacts[Top.i]
Gav == Split(Artifact, ":")

\* The innermost call goes on to its next coordinate.
Continue(stack) ==
  [stack EXCEPT ![Len(stack)] = [@ EXCEPT !.i = @ + 1, !.at = "stat"]]

\* Every call on the stack returns the error of the innermost one.
ReturnError(err) ==
  /\ callStack' = <<>>
  /\ callResult' = err

ResolverInit ==
  /\ NoService
  /\ NoCompare
  /\ NoRoute
  /\ NoCacheRun
  /\ NoVersionCheck
  /\ NoLink
  /\ coordinates \in ArtifactLists
  /\ outputDir = {}
  /\ callStack = <<>>
  /\ callResult = "none"
  /\ fetchLog = <<>>
  /\ callCount = 0
  /\ earlier = <<>>

\* jlink.go:298: the outermost call.
Call ==
  /\ callResult # "running"
  /\ callCount < MaxCalls
  /\ callStack' = <<Frame(coordinates)>>
  /\ callResult' = "running"
  /\ callCount' = callCount + 1
  /\ earlier' = IF callCount = 0 THEN earlier ELSE Append(earlier, callResult)
  /\ fetchLog' = <<>>
  /\ UNCHANGED <<service, functions, coordinates, outputDir>>

\* maven_central.go:117-120
Invalid ==
  /\ InLoop
  /\ ~WellFormed(Gav)
  /\ ReturnError("Invalid maven coordinates")
  /\ UNCHANGED <<service, functions, coordinates, outputDir, fetchLog, callCount, earlier>>

\* maven_central.go:122-125
Skip ==
  /\ InLoop
  /\ WellFormed(Gav)
  /\ Top.at = "stat"
  /\ JarExists(outputDir, JarPath(Gav))
  /\ callStack' = Continue(callStack)
  /\ UNCHANGED <<service, functions, coordinates, outputDir, callResult, fetchLog, callCount,
                 earlier>>

\* maven_central.go:127-131 and downloadArtifact, 179-203
DownloadArtifact ==
  /\ InLoop
  /\ WellFormed(Gav)
  /\ Top.at = "stat"
  /\ ~JarExists(outputDir, JarPath(Gav))
  /\ fetchLog' = Append(fetchLog, Url(Gav, ".jar"))
  /\ \E outcome \in {"get", "status", "create", "copy", "ok"} :
       CASE outcome = "ok" ->
              /\ outputDir' = Stored(outputDir, JarPath(Gav), Url(Gav, ".jar"), TRUE)
              /\ callStack' = [callStack EXCEPT ![Len(callStack)].at = "pom"]
              /\ UNCHANGED callResult
         [] outcome = "copy" ->
              /\ outputDir' = Stored(outputDir, JarPath(Gav), Url(Gav, ".jar"), FALSE)
              /\ ReturnError("copy")
         [] OTHER ->
              /\ ReturnError(outcome)
              /\ UNCHANGED outputDir
  /\ UNCHANGED <<service, functions, coordinates, callCount, earlier>>

\* maven_central.go:133-150 and downloadPom, 156-176
DownloadPom ==
  /\ InLoop
  /\ Top.at = "pom"
  /\ Len(callStack) < MaxDepth
  /\ fetchLog' = Append(fetchLog, Url(Gav, ".pom"))
  /\ \E outcome \in {"get", "status", "unmarshal", "ok"} :
       IF outcome = "ok"
       THEN /\ callStack' = Append(Continue(callStack),
                                   Frame(DepArtifacts(Repository(Gav[1], Gav[2], Gav[3]))))
            /\ UNCHANGED callResult
       ELSE ReturnError(outcome)
  /\ UNCHANGED <<service, functions, coordinates, outputDir, callCount, earlier>>

\* maven_central.go:152
Return ==
  /\ callStack # <<>>
  /\ ~InLoop
  /\ callStack' = SubSeq(callStack, 1, Len(callStack) - 1)
  /\ callResult' = IF Len(callStack) = 1 THEN "nil" ELSE callResult
  /\ UNCHANGED <<service, functions, coordinates, outputDir, fetchLog, callCount, earlier>>

ResolverNext == Call \/ Invalid \/ Skip \/ DownloadArtifact \/ DownloadPom \/ Return

SpecResolver == ResolverInit /\ [][ResolverNext]_vars

\* The calls never nest deeper than MaxDepth allows.
DepthSuffices == Len(callStack) < MaxDepth

Range(seq) == { seq[i] : i \in 1 .. Len(seq) }

\* The coordinates a POM lists outside the test scope.
NonTestDependencies(coordinate) ==
  LET gav == Split(coordinate, ":")
      dependencies == IF Len(gav) = 3 THEN Repository(gav[1], gav[2], gav[3]) ELSE <<>>
  IN  { CoordinateOf(dep.GroupId, dep.ArtifactId, dep.Version) :
          dep \in { d \in Range(dependencies) : d.Scope # "test" } }

RECURSIVE ReachableFrom(_)
\* The coordinates of a set and everything they reach outside the test scope.
ReachableFrom(set) ==
  LET more == set \cup UNION { NonTestDependencies(c) : c \in set }
  IN  IF more = set THEN set ELSE ReachableFrom(more)

\* The URLs the binaries in the output directory came from.
Binaries == { f.from : f \in outputDir }

\* C15: when the first call on an empty output directory has returned without
\* an error, the binaries in the directory are those of the requested
\* coordinates and of every coordinate they reach through dependencies outside
\* the test scope, and no others.
C15_FetchedIsClosure ==
  (callCount = 1 /\ callResult = "nil")
    => Binaries = { Url(Split(c, ":"), ".jar") : c \in ReachableFrom(Range(coordinates)) }

\* The same, when no two coordinates share artifact and version.
ClosureExceptTwins ==
  (callCount = 1 /\ callResult = "nil"
     /\ CoordinateOf(<<"h">>, <<"a">>, <<"1">>) \notin Range(coordinates))
    => Binaries = { Url(Split(c, ":"), ".jar") : c \in ReachableFrom(Range(coordinates)) }

\* C16: when a call has returned without an error, a second call with the same
\* coordinates on the same output directory sends no GET and leaves the
\* directory as it was.
C16_SecondCallIdle ==
  [][ (callCount' = 2 /\ earlier' = <<"nil">>)
        => /\ fetchLog' = <<>>
           /\ outputDir' = outputDir ]_vars

\* A second call has returned after a first that stored binaries.
C16_Witness ==
  /\ callCount = 2
  /\ earlier = <<"nil">>
  /\ callResult = "nil"
  /\ fetchLog = <<>>
  /\ Cardinality(outputDir) >= 4

\* C17: within one outermost call no binary and no POM is requested twice,
\* whether a coordinate is reached along two paths or listed more than once.
C17_FetchedOnce ==
  \A i, j \in 1 .. Len(fetchLog) : fetchLog[i] = fetchLog[j] => i = j

\* g:a:1 was resolved: g:d:1, reached through g:b:1 and listed twice by g:c:1,
\* is in the directory, and the call has returned.
C17_Witness ==
  /\ callCount = 1
  /\ callResult = "nil"
  /\ coordinates = <<CoordinateOf(<<"g">>, <<"a">>, <<"1">>)>>
  /\ \E i \in 1 .. Len(fetchLog) : fetchLog[i] = Url(<<<<"g">>, <<"d">>, <<"1">>>>, ".pom")
  /\ \E i \in 1 .. Len(fetchLog) : fetchLog[i] = Url(<<<<"g">>, <<"c">>, <<"1">>>>, ".pom")

\* The requested coordinates reach, outside the test scope, a coordinate that
\* depends on itself.
ReachCycle ==
  \E c \in ReachableFrom(Range(coordinates)) :
    c \in ReachableFrom(NonTestDependencies(c))

CycleInit == ResolverInit /\ ReachCycle

\* The calls on coordinates that reach a cycle; a call that has started goes
\* on until it returns.
SpecResolverFair ==
  /\ CycleInit
  /\ [][ResolverNext]_vars
  /\ WF_vars(Invalid \/ Skip \/ DownloadArtifact \/ DownloadPom \/ Return)

\* C18, as stated: when the requested coordinates reach a dependency cycle,
\* the call never returns.
C18_CycleNeverReturns == ReachCycle => callResult # "nil"

\* C18: when the requested coordinates reach a dependency cycle, a call that
\* has started returns: a coordinate met again has its jar in the output
\* directory and is skipped.
C18_CycleReturns == []<>(ReachCycle /\ callResult # "running")

\* The call for g:x:1, which depends on itself through g:y:1 and g:z:1, has
\* returned without an error with the three jars in the directory.
C18_Witness ==
  /\ coordinates = <<CoordinateOf(<<"g">>, <<"x">>, <<"1">>)>>
  /\ callCount = 1
  /\ callResult = "nil"
  /\ { f.name : f \in outputDir }
       = { JarPath(<<<<"g">>, <<a>>, <<"1">>>>) : a \in {"x", "y", "z"} }
  /\ Len(fetchLog) = 6

\* C19: when the loop of a call comes to a coordinate that is not three
\* fields separated by colons, the outermost call returns the invalid
\* coordinates error: nothing is requested for that coordinate, no file is
\* written, and no call is left to go on to a later coordinate.
C19_InvalidCoordinate ==
  [][ (InLoop /\ Len(Split(Artifact, ":")) # 3)
        => /\ callResult' = "Invalid maven coordinates"
           /\ callStack' = <<>>
           /\ fetchLog' = fetchLog
           /\ outputDir' = outputDir ]_vars

\* g:m:1 lists g:d:1, then g:n:1:2, then g:u:1: the call failed on the second
\* after the GETs for g:m:1 and g:d:1, and g:u:1 was not requested.
C19_Witness ==
  /\ coordinates = <<CoordinateOf(<<"g">>, <<"m">>, <<"1">>)>>
  /\ callCount = 1
  /\ callResult = "Invalid maven coordinates"
  /\ callStack = <<>>
  /\ Len(fetchLog) = 4
  /\ \A i \in 1 .. Len(fetchLog) : fetchLog[i][3] # <<"u">>

\* The binary of every coordinate the requested ones reach outside the test
\* scope is in the output directory, whole, and came from that coordinate's
\* own place in the repository.
ClosureStored ==
  \A c \in ReachableFrom(Range(coordinates)) :
    \E f \in outputDir : f.from = Url(Split(c, ":"), ".jar") /\ f.whole

\* C39: whenever a call has returned without an error, the output directory
\* holds the binary of every coordinate the requested ones reach outside the
\* test scope, also when an earlier call on the same directory failed after
\* it had written a coordinate's binary and before it had that coordinate's
\* POM.
C39_ClosureAfterSuccess == callResult = "nil" => ClosureStored

\* The same for a second call after a first that failed to parse a POM, when
\* no two requested coordinates share artifact and version.
ClosureAfterRetry ==
  (callCount = 2 /\ callResult = "nil" /\ earlier = <<"unmarshal">>
     /\ CoordinateOf(<<"h">>, <<"a">>, <<"1">>) \notin Range(coordinates))
    => ClosureStored

\* C40: the loop goes past a coordinate without a GET only when the binary of
\* that same group, artifact and version is in the output directory; two
\* coordinates that differ in the group alone are both downloaded, each from
\* its own path.
C40_SkippedOnlyIfFetched ==
  [][ (InLoop /\ WellFormed(Gav) /\ callStack' = Continue(callStack))
        => Url(Gav, ".jar") \in Binaries ]_vars

(***************************************************************************)
(* The module list of jlink on its own (jlink.go:324-334, 391): a module   *)
(* name is one string, the modules parameter any list of a few names.      *)
(***************************************************************************)
MaxModules == 3

ModuleNames == {"java.base", "java.sql", "jdk.zipfs", "a"}

ModuleLists == UNION { [1 .. n -> ModuleNames] : n \in 0 .. MaxModules }

RECURSIVE StringsJoin(_, _)
\* strings.Join(elems, sep), as the elements with the separator between them.
StringsJoin(elems, sep) ==
  IF Len(elems) = 0 THEN <<>>
  ELSE IF Len(elems) = 1 THEN elems
  ELSE <<Head(elems), sep>> \o StringsJoin(Tail(elems), sep)

\* A module list that gets the base module whatever it holds.
BaseAppended(modules) == Append(modules, "java.base")

\* jlink.go:324-334
WithBase(modules) ==
  LET base == \E i \in 1 .. Len(modules) : modules[i] = "java.base"
  IN  IF ~base THEN Append(modules, "java.base") ELSE modules

ModulesInit ==
  /\ NoService
  /\ NoCompare
  /\ NoRoute
  /\ NoCacheRun
  /\ NoVersionCheck
  /\ requested \in ModuleLists
  /\ addModules = <<>>
  /\ NoPlatform
  /\ NoBuild
  /\ NoResolver

\* jlink.go:324-334 and 391: the value given to --add-modules.
AddModules ==
  /\ addModules = <<>>
  /\ addModules' = StringsJoin(WithBase(requested), ",")
  /\ UNCHANGED <<service, looked, buckets, routed, compared, checkedToken, checkResult, requested, environ, determined, jl, sent, resolver>>

ModulesNext == AddModules

SpecModules == ModulesInit /\ [][ModulesNext]_vars

\* The names between the commas of the value given to --add-modules.
Linked == [i \in 1 .. (Len(addModules) + 1) \div 2 |-> addModules[2 * i - 1]]

\* C20: the list given to the linking tool holds java.base; it is the
\* requested list, in its order, followed by java.base when the requested list
\* does not hold it, and by nothing when it does.
C20_BaseModuleLinked ==
  addModules # <<>>
    => /\ \E i \in 1 .. Len(Linked) : Linked[i] = "java.base"
       /\ SubSeq(Linked, 1, Len(requested)) = requested
       /\ Len(Linked) = Len(requested)
                          + (IF "java.base" \in Range(requested) THEN 0 ELSE 1)
       /\ \A i \in 1 .. Len(addModules) : (i % 2 = 0) <=> (addModules[i] = ",")

\* java.base was requested between two other modules and the list went to the
\* tool as requested.
C20_Witness ==
  /\ requested = <<"java.sql", "java.base", "jdk.zipfs">>
  /\ addModules = <<"java.sql", ",", "java.base", ",", "jdk.zipfs">>

\* java.base was not requested and ends the list.
C20_Appended ==
  /\ requested = <<"jdk.zipfs", "java.sql">>
  /\ addModules = <<"jdk.zipfs", ",", "java.sql", ",", "java.base">>

(***************************************************************************)
(* determineLocalPlatform on its own (jlink.go:423-440): the environment   *)
(* sets LOCAL_PLATFORM to some value or does not set it, and the program   *)
(* was built for some operating system.                                    *)
(***************************************************************************)
PlatformValues == {"", "darwin", "mac", "windows", "linux", "aix", "solaris", "mydiyos"}
GoosValues == {"darwin", "windows", "linux", "aix", "solaris", "freebsd"}

Environs ==
  { [LOCAL_PLATFORM |-> [exists |-> TRUE, value |-> v], GOOS |-> g] :
      v \in PlatformValues, g \in GoosValues }
  \cup { [LOCAL_PLATFORM |-> [exists |-> FALSE, value |-> ""], GOOS |-> g] : g \in GoosValues }

\* A determineLocalPlatform that does not read the environment.
GoosOnly(env) == IF env.GOOS = "darwin" THEN "mac" ELSE env.GOOS

\* jlink.go:423-440
determineLocalPlatform(env) ==
  LET localPlatform == IF env.LOCAL_PLATFORM.exists
                       THEN env.LOCAL_PLATFORM.value
                       ELSE env.GOOS
  IN  CASE localPlatform = "darwin" -> "mac"
        [] OTHER -> localPlatform

PlatformInit ==
  /\ NoService
  /\ NoCompare
  /\ NoRoute
  /\ NoCacheRun
  /\ NoVersionCheck
  /\ requested = <<>>
  /\ addModules = <<>>
  /\ environ \in Environs
  /\ determined = NotDetermined
  /\ NoBuild
  /\ NoResolver

DetermineLocalPlatform ==
  /\ ~determined.returned
  /\ determined' = [returned |-> TRUE, value |-> determineLocalPlatform(environ)]
  /\ UNCHANGED <<service, looked, buckets, routed, compared, checkedToken, checkResult, requested, addModules, environ, jl, sent,
                 resolver>>

PlatformNext == DetermineLocalPlatform

SpecPlatform == PlatformInit /\ [][PlatformNext]_vars

\* C30: determineLocalPlatform returns the value of LOCAL_PLATFORM when the
\* environment sets it and the operating system name when it does not, with
\* "mac" in place of "darwin" and every other value as it is, supported
\* platform or not.
C30_LocalPlatform ==
  determined.returned
    => /\ (environ.LOCAL_PLATFORM.exists /\ environ.LOCAL_PLATFORM.value # "darwin")
            => determined.value = environ.LOCAL_PLATFORM.value
       /\ (environ.LOCAL_PLATFORM.exists /\ environ.LOCAL_PLATFORM.value = "darwin")
            => determined.value = "mac"
       /\ (~environ.LOCAL_PLATFORM.exists /\ environ.GOOS # "darwin")
            => determined.value = environ.GOOS
       /\ (~environ.LOCAL_PLATFORM.exists /\ environ.GOOS = "darwin")
            => determined.value = "mac"

\* On a Mac whose environment sets LOCAL_PLATFORM to mydiyos, mydiyos was
\* returned.
C30_Witness ==
  /\ determined = [returned |-> TRUE, value |-> "mydiyos"]
  /\ environ.LOCAL_PLATFORM = [exists |-> TRUE, value |-> "mydiyos"]
  /\ environ.GOOS = "darwin"

(***************************************************************************)
(* jlink on its own, with the lines of handleRequest that call it and      *)
(* answer (jlink.go:304-420).  Both runtimes are in the cache; a path is   *)
(* the list of its components.                                             *)
(***************************************************************************)
TMP == "tmp"

\* The package variable LOCAL_PLATFORM of this process (jlink.go:45).
LocalPlatform == determineLocalPlatform(environ)

\* os.PathListSeparator
PathListSeparator(goos) == IF goos = "windows" THEN ";" ELSE ":"

\* A module directory looked for where the host keeps its own.
JmodsOfHost(runtime, platform) ==
  IF LocalPlatform = "mac" THEN runtime \o <<"Contents", "Home", "jmods">>
  ELSE runtime \o <<"jmods">>

\* jlink.go:340-362: the module directory of the target runtime.
Jmods(runtime, platform) ==
  CASE platform = "mac" -> runtime \o <<"Contents", "Home", "jmods">>
    [] platform = "windows" -> runtime \o <<"jmods">>
    [] OTHER -> runtime \o <<"jmods">>

\* jlink.go:346, 353, 360: the two directories and the separator between them.
ModulePath(runtime, platform, mavenCentral, goos) ==
  <<Jmods(runtime, platform), PathListSeparator(goos), mavenCentral>>

\* jlink.go:365-372: the linking tool of the local runtime.
JlinkTool(jdk, localPlatform) ==
  CASE localPlatform = "mac" -> jdk \o <<"Contents", "Home", "bin", "jlink">>
    [] localPlatform = "windows" -> jdk \o <<"bin", "jlink.exe">>
    [] OTHER -> jdk \o <<"bin", "jlink">>

\* What the linking tool leaves in its output directory for a target
\* platform; the legal directory comes with a file and a link in it.
JlinkOutput(platform, legal) ==
  { <<"bin">>, <<"bin", IF platform = "windows" THEN "java.exe" ELSE "java">>,
    <<"lib">>, <<"lib", "modules">>, <<"release">> }
  \cup (IF legal
        THEN { <<"legal">>, <<"legal", "java.base">>, <<"legal", "java.base", "LICENSE">> }
        ELSE {})

\* dir is e or above it.
Under(e, dir) == Len(e) >= Len(dir) /\ SubSeq(e, 1, Len(dir)) = dir

\* A removal that removes nothing.
NothingRemoved(tree, dir) == tree

\* os.RemoveAll(output + "/legal"), jlink.go:405
RemoveAllUnder(tree, dir) == { e \in tree : ~Under(e, dir) }

\* archiver.Archive([]string{output}, archive): the entries of the archive,
\* below the name of the output directory.
Archived(output, tree) ==
  { <<output[Len(output)]>> } \cup { <<output[Len(output)]>> \o e : e \in tree }

\* A cmd.Run whose error is not looked at.
RunErrorDropped(outcome) == FALSE

\* jlink.go:397: cmd.Run returns an error when the tool cannot be started
\* and when it exits with a status other than 0.
RunFailed(outcome) == outcome \in {"launch", "exit"}

\* An archive named after the local release.
LocalName(target, local) == local.Package.Name

\* jlink.go:305, 313: target.Package.Name
ArchiveName(target, local) == target.Package.Name

LinkInputs ==
  { [at |-> "start", target |-> Binary(arch, platform, "hotspot", 1),
     local |-> Binary(LOCAL_ARCH, determineLocalPlatform(env), "hotspot", 1),
     platform |-> platform, version |-> Version11, endian |-> "little",
     localRuntimePath |->
       CachedHandle(Binary(LOCAL_ARCH, determineLocalPlatform(env), "hotspot", 1), Version11),
     targetRuntimePath |-> CachedHandle(Binary(arch, platform, "hotspot", 1), Version11),
     jdk |-> <<>>, runtime |-> <<>>, mavenCentral |-> <<TMP, 0, "mavenCentral">>,
     filename |-> <<>>, modules |-> <<>>, output |-> <<>>, modulePath |-> <<>>,
     jlink |-> <<>>, ran |-> "none", linked |-> {}, tree |-> {}, archive |-> <<>>, written |-> <<>>,
     buffer |-> {}, err |-> "", env |-> env] :
      arch \in {"x64", "aarch64"}, platform \in {"mac", "windows", "linux"},
      env \in { e \in Environs : platformCheck(determineLocalPlatform(e)) } }

LinkInit ==
  /\ NoService
  /\ NoCompare
  /\ NoRoute
  /\ NoCacheRun
  /\ NoVersionCheck
  /\ requested = <<"java.sql">>
  /\ addModules = <<>>
  /\ determined = NotDetermined
  /\ jl \in LinkInputs
  /\ environ = jl.env
  /\ sent = NothingSent
  /\ NoResolver

\* jlink returns an error (jlink.go:306-310): its deferred calls have removed
\* what it made, handleRequest answers 400.
LinkFails(call, err) ==
  /\ jl' = [call EXCEPT !.at = "returned", !.err = err, !.tree = {}]
  /\ sent' = [code |-> 400, reason |-> "Failed to generate runtime", filename |-> <<>>,
              body |-> {}]

\* jlink.go:305: the call; 324-376: the base module, the output directory,
\* the module path and the tool, made executable.
LinkStart ==
  /\ jl.at = "start"
  /\ \E outcome \in {"stat", "chmod", "ok"} :
       LET called == [jl EXCEPT !.jdk = jl.localRuntimePath,
                                !.runtime = jl.targetRuntimePath,
                                !.filename = ArchiveName(jl.target, jl.local),
                                !.modules = WithBase(requested),
                                !.output = <<TMP, 1, <<"jdk-">> \o jl.version>>]
           ready == [called EXCEPT
                       !.modulePath = ModulePath(called.runtime, called.platform,
                                                 called.mavenCentral, environ.GOOS),
                       !.jlink = JlinkTool(called.jdk, LocalPlatform)]
       IN  CASE outcome = "stat" -> LinkFails(called, outcome)
             [] outcome = "chmod" -> LinkFails(ready, outcome)
             [] OTHER -> /\ jl' = [ready EXCEPT !.at = "run"]
                         /\ UNCHANGED sent
  /\ UNCHANGED <<service, looked, buckets, routed, compared, checkedToken, checkResult, requested, addModules, environ,
                 determined, resolver>>

\* jlink.go:378-399: the tool runs.
LinkRun ==
  /\ jl.at = "run"
  /\ addModules' = StringsJoin(jl.modules, ",")
  /\ \E outcome \in {"launch", "exit", "ok"}, legal \in BOOLEAN :
       IF RunFailed(outcome)
       THEN LinkFails([jl EXCEPT !.ran = outcome], outcome)
       ELSE /\ jl' = [jl EXCEPT !.at = "ran", !.ran = outcome,
                                !.linked = JlinkOutput(jl.platform, legal),
                                !.tree = JlinkOutput(jl.platform, legal)]
            /\ UNCHANGED sent
  /\ UNCHANGED <<service, looked, buckets, routed, compared, checkedToken, checkResult, requested, environ, determined,
                 resolver>>

\* jlink.go:401-405: the place of the archive, and the legal directory.
LinkLegal ==
  /\ jl.at = "ran"
  /\ jl' = [jl EXCEPT !.at = "archive",
                      !.archive = <<TMP, 2, jl.filename>>,
                      !.tree = RemoveAllUnder(jl.tree, <<"legal">>)]
  /\ UNCHANGED <<service, looked, buckets, routed, compared, checkedToken, checkResult, requested, addModules, environ,
                 determined, sent, resolver>>

\* jlink.go:407-420 and 312-315: the output is archived and read, jlink
\* returns and handleRequest sends what it returned.
LinkArchive ==
  /\ jl.at = "archive"
  /\ \E outcome \in {"archive", "open", "ok"} :
       CASE outcome = "archive" -> LinkFails(jl, outcome)
         [] outcome = "open" -> LinkFails([jl EXCEPT !.written = jl.archive], outcome)
         [] OTHER ->
              /\ jl' = [jl EXCEPT !.at = "returned", !.tree = {}, !.written = jl.archive,
                                  !.buffer = Archived(jl.output, jl.tree)]
              /\ sent' = [code |-> 200, reason |-> "",
                          filename |-> ArchiveName(jl.target, jl.local),
                          body |-> Archived(jl.output, jl.tree)]
  /\ UNCHANGED <<service, looked, buckets, routed, compared, checkedToken, checkResult, requested, addModules, environ,
                 determined, resolver>>

LinkNext == LinkStart \/ LinkRun \/ LinkLegal \/ LinkArchive

SpecLink == LinkInit /\ [][LinkNext]_vars

\* C21: the linking tool is looked for in the local runtime, at
\* Contents/Home/bin/jlink when the host platform is mac, at bin/jlink.exe
\* when it is windows and at bin/jlink otherwise, whatever the target
\* platform; the module directory is looked for in the target runtime, at
\* Contents/Home/jmods when the target platform is mac and at jmods
\* otherwise, whatever the host platform.
C21_ToolAndModules ==
  jl.jlink # <<>>
    => /\ jl.jlink = CachedHandle(jl.local, jl.version)
                       \o (IF LocalPlatform = "mac" THEN <<"Contents", "Home", "bin", "jlink">>
                           ELSE IF LocalPlatform = "windows" THEN <<"bin", "jlink.exe">>
                           ELSE <<"bin", "jlink">>)
       /\ jl.modulePath[1] = CachedHandle(jl.target, jl.version)
                               \o (IF jl.platform = "mac" THEN <<"Contents", "Home", "jmods">>
                                   ELSE <<"jmods">>)
       /\ jl.modulePath[3] = jl.mavenCentral

\* On a Windows host a runtime for mac is being linked: the tool is
\* bin/jlink.exe of the local runtime, the modules are in Contents/Home/jmods
\* of the target runtime.
C21_Witness ==
  /\ jl.at = "run"
  /\ LocalPlatform = "windows"
  /\ jl.platform = "mac"
  /\ jl.local # jl.target
  /\ jl.jlink[Len(jl.jlink)] = "jlink.exe"
  /\ jl.modulePath[1][Len(jl.modulePath[1]) - 1] = "Home"

\* C22: when the linking tool could not be started or exited with a status
\* other than 0, nothing is archived, jlink returns no bytes, and the request
\* is answered with a failure, never with a success.
C22_LinkFailureAborts ==
  jl.ran \in {"launch", "exit"}
    => /\ jl.at = "returned"
       /\ jl.archive = <<>>
       /\ jl.written = <<>>
       /\ jl.buffer = {}
       /\ sent.code = 400
       /\ sent.reason = "Failed to generate runtime"
       /\ sent.body = {}

\* The tool exited with a status other than 0 and the request was answered.
C22_Witness ==
  /\ jl.ran = "exit"
  /\ jl.jlink # <<>>
  /\ sent.code = 400

\* The entries of the legal directory in a set of entries.
Legal(entries, top) == { e \in entries : Under(e, top \o <<"legal">>) }

Java(platform) == <<"bin", IF platform = "windows" THEN "java.exe" ELSE "java">>

\* C24, as stated: on a host that is not Windows, the archive sent for a
\* successful request holds jdk-<version>/legal next to jdk-<version>/bin/java
\* (bin/java.exe for a Windows target).
C24_LegalInArchive ==
  (sent.code = 200 /\ LocalPlatform # "windows")
    => /\ << <<"jdk-">> \o jl.version >> \o Java(jl.platform) \in sent.body
       /\ << <<"jdk-">> \o jl.version, "legal" >> \in sent.body

\* C25: the archive is written under the file name of the target release and
\* a successful response carries that name in its content-disposition header,
\* also when the local release is another one.
C25_NamedAfterTarget ==
  /\ jl.archive # <<>> => jl.archive[Len(jl.archive)] = jl.target.Package.Name
  /\ jl.written # <<>> => jl.written[Len(jl.written)] = jl.target.Package.Name
  /\ sent.code = 200 => sent.filename = jl.target.Package.Name

\* On a Linux host the archive of a runtime for windows was sent under the
\* name of the release for windows.
C25_Witness ==
  /\ sent.code = 200
  /\ jl.local.Platform = "linux"
  /\ jl.target.Platform = "windows"
  /\ jl.local.Package.Name # jl.target.Package.Name
  /\ sent.filename = PackageName("x64", "windows", "hotspot", 1)
  /\ jl.written = <<TMP, 2, sent.filename>>

(***************************************************************************)
(* The responses and the order of the stages: claims C26 and C27, checked  *)
(* under Spec.                                                             *)
(***************************************************************************)
\* The reasons a handler that stands at a place may answer 400 with.
ReasonsAt(p, s) ==
  CASE p = "idle" ->
         { "Maven Central integration is disabled",
           "Valid operating systems: [windows, linux, mac, solaris, aix]",
           "Valid architectures: [x64, x32, ppc64, s390x, ppc64le, aarch64, arm]",
           "Invalid artifact", "Invalid module", "Valid endian types: [little, big]",
           "Valid implementation types: [hotspot, openj9]", "Invalid Java version" }
    [] p \in {"lk_read", "lk_query", "lk_write", "lk_reread"} ->
         IF s = "target" THEN {"Failed to find target runtime"}
         ELSE {"Failed to find local runtime"}
    [] p \in {"dl_lock", "dl_stat", "dl_fetch", "dl_extract", "dl_extracting"} ->
         IF s = "local" THEN {"Failed to download local runtime"}
         ELSE {"Failed to download target runtime"}
    [] p = "artifacts" -> {"Failed to download Maven Central artifacts"}
    [] p \in {"jl_start", "jl_run", "jl_archive"} -> {"Failed to generate runtime"}
    [] OTHER -> {}

\* C26: a handler writes one response, in the step in which it returns: 400
\* with the reason of the stage it stood at when that stage failed, 200 only
\* from the end of the last stage, with both releases found, both runtimes in
\* place and the three temporary directories made; a response once written
\* is not written again.
C26_OneResponse ==
  [][ \A r \in Requests :
        /\ resp[r] # NoResponse => (resp'[r] = resp[r] /\ pc'[r] = "done")
        /\ pc'[r] # "done" => resp'[r] = NoResponse
        /\ (pc[r] # "done" /\ pc'[r] = "done")
             => \/ /\ resp'[r].code = 400
                   /\ resp'[r].reason \in ReasonsAt(pc[r], stage[r])
                \/ /\ resp'[r].code = 200
                   /\ resp'[r].reason = ""
                   /\ pc[r] = "jl_archive"
                   /\ bin[r].target # NoBinary /\ bin[r].local # NoBinary
                   /\ path[r].target # NoPath /\ path[r].local # NoPath
                   /\ dirs[r].mc # NoDir /\ dirs[r].out # NoDir /\ dirs[r].ar # NoDir ]_vars

\* One request was answered 200 and another 400 for a release that was not
\* found.
C26_Witness ==
  \E r1, r2 \in Requests :
    /\ resp[r1].code = 200 /\ pc[r1] = "done"
    /\ resp[r2].code = 400 /\ pc[r2] = "done"
    /\ resp[r2].reason = "Failed to find target runtime"

\* How far a handler has come: the places of handleRequest in the order of
\* its text (jlink.go:200-316); the two lookups are target then local, the
\* two downloads local then target.
Rank(p, s) ==
  CASE p = "idle" -> 0
    [] p = "lk_read" -> IF s = "target" THEN 1 ELSE 5
    [] p = "lk_query" -> IF s = "target" THEN 2 ELSE 6
    [] p = "lk_write" -> IF s = "target" THEN 3 ELSE 7
    [] p = "lk_reread" -> IF s = "target" THEN 4 ELSE 8
    [] p = "dl_lock" -> IF s = "local" THEN 9 ELSE 14
    [] p = "dl_stat" -> IF s = "local" THEN 10 ELSE 15
    [] p = "dl_fetch" -> IF s = "local" THEN 11 ELSE 16
    [] p = "dl_extract" -> IF s = "local" THEN 12 ELSE 17
    [] p = "dl_extracting" -> IF s = "local" THEN 13 ELSE 18
    [] p = "mc_dir" -> 19
    [] p = "artifacts" -> 20
    [] p = "jl_start" -> 21
    [] p = "jl_run" -> 22
    [] p = "jl_archive" -> 23
    [] OTHER -> 24

\* The places at which a handler makes an attempt: the index query, the
\* archive download, the artifact download, the linking tool.
Attempts == {"lk_query", "dl_fetch", "artifacts", "jl_run"}

\* C27: a handler only moves forward through handleRequest, so it stands at
\* each attempt (index query and archive download once for the target and
\* once for the local release, artifact download, link) at most once; the
\* step it takes from an attempt either goes on or returns with a 400; and
\* every archive GET that is issued is the one attempt of a handler that
\* leaves the download with it.
C27_NoRetry ==
  [][ /\ \A r \in Requests :
           /\ (pc'[r] # pc[r] \/ stage'[r] # stage[r])
                => Rank(pc'[r], stage'[r]) > Rank(pc[r], stage[r])
           /\ (pc[r] \in Attempts /\ pc'[r] # pc[r])
                => \/ pc'[r] = "done" /\ resp'[r].code = 400
                   \/ Rank(pc'[r], stage'[r]) = Rank(pc[r], stage[r]) + 1
      /\ \A d \in RuntimePaths :
           downloads'[d] # downloads[d]
             => /\ downloads'[d] = downloads[d] + 1
                /\ \E r \in Requests :
                     /\ pc[r] = "dl_fetch" /\ DlPath(r) = d
                     /\ pc'[r] \in {"dl_extract", "done"} ]_vars

\* A request whose archives were downloaded ended at the failure of the
\* linking tool.
C27_Witness ==
  \E r \in Requests :
    /\ pc[r] = "done"
    /\ resp[r].reason = "Failed to generate runtime"
    /\ \E d \in RuntimePaths : downloads[d] >= 1

(***************************************************************************)
(* compareJdkRelease (called at maven_central.go:266, tested at            *)
(* util_test.go:20-28): the two version strings are split at "+" into      *)
(* base and build; for equal bases the builds are compared as              *)
(* dot-separated integers from left to right, a sequence that has ended    *)
(* counting as zeros.  Nothing is laid down for strings with different     *)
(* bases or without a build; the strings compared here share their base.   *)
(***************************************************************************)
MaxComponents == 2

\* The numerals a build is made of.
BuildNumerals == {<<"0">>, <<"1">>, <<"2">>, <<"1", "0">>, <<"1", "1">>}

RECURSIVE BuildStrings(_)
BuildStrings(n) ==
  IF n = 1 THEN BuildNumerals
  ELSE {x \o <<".">> \o y : x \in BuildStrings(n - 1), y \in BuildNumerals}

BuildParts == UNION {BuildStrings(n) : n \in 1 .. MaxComponents}

\* "1.2.3" (util_test.go) and "11.0.8"
JdkBases == {<<"1", ".", "2", ".", "3">>, <<"1", "1", ".", "0", ".", "8">>}

Release(base, build) == base \o <<"+">> \o build

VersionStrings(base) == {Release(base, build) : build \in BuildParts}

\* A comparator in which a component that is missing counts as one.
MissingIsOne(parts, i) == IF i <= Len(parts) THEN Atoi(parts[i]).value ELSE 1

\* The i-th integer of a build, zero when the build has fewer components.
Component(parts, i) == IF i <= Len(parts) THEN Atoi(parts[i]).value ELSE 0

RECURSIVE CompareFrom(_, _, _)
CompareFrom(x, y, i) ==
  IF i > Len(x) /\ i > Len(y) THEN 0
  ELSE IF Component(x, i) > Component(y, i) THEN 1
  ELSE IF Component(x, i) < Component(y, i) THEN -1
  ELSE CompareFrom(x, y, i + 1)

\* A comparator that looks at the first component of the builds only.
compareFirstComponent(a, b) ==
  LET x == Split(Split(a, "+")[2], ".")
      y == Split(Split(b, "+")[2], ".")
  IN  IF Component(x, 1) > Component(y, 1) THEN 1
      ELSE IF Component(x, 1) < Component(y, 1) THEN -1
      ELSE 0

compareJdkRelease(a, b) ==
  LET x == Split(Split(a, "+")[2], ".")
      y == Split(Split(b, "+")[2], ".")
  IN  CompareFrom(x, y, 1)

\* The version string with one more zero component written out.
PadWithZero(v) == v \o <<".", "0">>

CompareInit ==
  /\ NoService
  /\ NoRoute
  /\ NoCacheRun
  /\ NoVersionCheck
  /\ NoLink
  /\ NoResolver
  /\ \E base \in JdkBases :
       compared \in { [at |-> "given", a |-> a, b |-> b, c |-> c] :
                       a \in VersionStrings(base), b \in VersionStrings(base),
                       c \in VersionStrings(base) }

\* The comparator is applied to the pairs of the three strings, to a string
\* and itself, and to the pair with one side padded.
CompareJdkRelease ==
  /\ compared.at = "given"
  /\ compared' = [at |-> "returned",
                  a |-> compared.a, b |-> compared.b, c |-> compared.c,
                  ab |-> compareJdkRelease(compared.a, compared.b),
                  ba |-> compareJdkRelease(compared.b, compared.a),
                  bc |-> compareJdkRelease(compared.b, compared.c),
                  ac |-> compareJdkRelease(compared.a, compared.c),
                  aa |-> compareJdkRelease(compared.a, compared.a),
                  pab |-> compareJdkRelease(PadWithZero(compared.a), compared.b),
                  apb |-> compareJdkRelease(compared.a, PadWithZero(compared.b))]
  /\ UNCHANGED <<service, looked, buckets, routed, checkedToken, checkResult, requested, addModules, environ,
                 determined, jl, sent, resolver>>

CompareNext == CompareJdkRelease

SpecCompare == CompareInit /\ [][CompareNext]_vars

\* The integers of the build of a version string.
BuildNumbers(v) ==
  LET parts == Split(Split(v, "+")[2], ".")
  IN  [i \in 1 .. Len(parts) |-> Atoi(parts[i]).value]

ZeroPadded(numbers, n) ==
  [i \in 1 .. n |-> IF i <= Len(numbers) THEN numbers[i] ELSE 0]

\* x is greater than y, two sequences of one length, at the first place at
\* which they differ.
GreaterAtFirstDifference(x, y) ==
  \E k \in 1 .. Len(x) : x[k] > y[k] /\ \A j \in 1 .. (k - 1) : x[j] = y[j]

Ordered(a, b) ==
  LET m == IF Len(BuildNumbers(a)) > Len(BuildNumbers(b))
           THEN Len(BuildNumbers(a)) ELSE Len(BuildNumbers(b))
      x == ZeroPadded(BuildNumbers(a), m)
      y == ZeroPadded(BuildNumbers(b), m)
  IN  IF x = y THEN 0
      ELSE IF GreaterAtFirstDifference(x, y) THEN 1
      ELSE -1

TestBase == <<"1", ".", "2", ".", "3">>
Build10 == Release(TestBase, <<"1", "0">>)
Build11 == Release(TestBase, <<"1", "1">>)
Build10_1 == Release(TestBase, <<"1", "0", ".", "1">>)
Build10_2 == Release(TestBase, <<"1", "0", ".", "2">>)

\* C28: for two version strings with one base compareJdkRelease returns 0
\* when the builds, padded with zeros to one length, are equal, 1 when the
\* first is greater at the first component at which they differ and -1 when
\* it is smaller; 10.1 and 11 are greater than 10, as in
\* TestCompareJdkRelease.
C28_BuildOrder ==
  compared.at = "returned" =>
    /\ compared.ab = Ordered(compared.a, compared.b)
    /\ compared.ab \in {-1, 0, 1}
    /\ (compared.a = Build10 /\ compared.b = Build10) => compared.ab = 0
    /\ (compared.a = Build11 /\ compared.b = Build10) => compared.ab = 1
    /\ (compared.a = Build10_1 /\ compared.b = Build10) => compared.ab = 1
    /\ (compared.a = Build10_2 /\ compared.b = Build10_1) => compared.ab = 1
    /\ (compared.a = Build10 /\ compared.b = Build11) => compared.ab = -1
    /\ (compared.a = Build10 /\ compared.b = Build10_1) => compared.ab = -1
    /\ (compared.a = Build10_1 /\ compared.b = Build10_2) => compared.ab = -1

\* 1.2.3+10.1 was compared with 1.2.3+10 and found greater.
C28_Witness ==
  /\ compared.at = "returned"
  /\ compared.a = Build10_1 /\ compared.b = Build10
  /\ compared.ab = 1

\* C29: over version strings with one base the comparator is antisymmetric
\* and transitive, a string compares equal to itself, and writing out one
\* more zero component on either side does not change the result.
C29_Ordering ==
  compared.at = "returned" =>
    /\ compared.ab = 0 - compared.ba
    /\ compared.aa = 0
    /\ compared.ab = compared.bc => compared.ac = compared.ab
    /\ compared.ab = 0 => compared.ac = compared.bc
    /\ compared.bc = 0 => compared.ac = compared.ab
    /\ compared.pab = compared.ab
    /\ compared.apb = compared.ab

\* Three builds of different lengths in descending order were compared:
\* 11 over 10.1 over 10.
C29_Witness ==
  /\ compared.at = "returned"
  /\ compared.a = Build11 /\ compared.b = Build10_1 /\ compared.c = Build10
  /\ compared.ab = 1 /\ compared.bc = 1 /\ compared.ac = 1
  /\ compared.ba = -1

(***************************************************************************)
(* The order of the stages of handleRequest (jlink.go:263-316): claim C35, *)
(* under Spec.                                                             *)
(***************************************************************************)
DownloadPlaces == {"dl_lock", "dl_stat", "dl_fetch", "dl_extract", "dl_extracting"}
ArtifactPlaces == {"mc_dir", "artifacts"}
LinkPlaces == {"jl_start", "jl_run", "jl_archive"}

\* C35: a handler inside downloadRelease holds both the target and the local
\* binary; it downloads the target runtime only with the local runtime's
\* path in hand; it is at the artifact download or in jlink only with both
\* runtime paths; it enters jlink only from the artifact download, which has
\* returned without error; and a handler that has answered takes no further
\* step, so nothing runs after a failure.
C35_StageOrder ==
  [][ \A r \in Requests :
        /\ pc'[r] \in DownloadPlaces \cup ArtifactPlaces \cup LinkPlaces
             => bin'[r].target # NoBinary /\ bin'[r].local # NoBinary
        /\ (pc'[r] \in DownloadPlaces /\ stage'[r] = "local")
             => path'[r].local = NoPath /\ path'[r].target = NoPath
        /\ (pc'[r] \in DownloadPlaces /\ stage'[r] = "target")
             => path'[r].local # NoPath /\ path'[r].target = NoPath
        /\ pc'[r] \in ArtifactPlaces \cup LinkPlaces
             => path'[r].local # NoPath /\ path'[r].target # NoPath
        /\ (pc'[r] \in DownloadPlaces /\ pc[r] \notin DownloadPlaces)
             => pc[r] \in {"lk_read", "lk_reread"} /\ stage[r] = "local"
        /\ (pc'[r] \in ArtifactPlaces /\ pc[r] \notin ArtifactPlaces)
             => pc[r] \in DownloadPlaces /\ stage[r] = "target"
        /\ (pc'[r] \in LinkPlaces /\ pc[r] \notin LinkPlaces)
             => pc[r] = "artifacts" /\ dirs'[r].mc # NoDir
        /\ pc[r] = "done"
             => /\ pc'[r] = "done"
                /\ dirs'[r] = dirs[r] /\ bin'[r] = bin[r] /\ path'[r] = path[r] ]_vars

\* One handler is inside jlink after all earlier stages; another answered
\* that the local runtime could not be downloaded.
C35_Witness ==
  \E r1, r2 \in Requests :
    /\ pc[r1] = "jl_run"
    /\ pc[r2] = "done" /\ resp[r2].reason = "Failed to download local runtime"

(***************************************************************************)
(* The three routes of main (jlink.go:119-187) and the checks of           *)
(* handleRequest (jlink.go:200-261) on one request.                        *)
(***************************************************************************)
\* c:d:2
OtherCoordinate == <<"c", ":", "d", ":", "2">>

\* The artifacts of a request as the text of the "artifacts" query parameter.
ArtifactQueries ==
  {<<>>, Coordinate, Coordinate \o <<",">> \o OtherCoordinate, <<"a", ":", "b">>}

RouteInputs ==
  [at : {"given"}, MAVEN_CENTRAL : BOOLEAN,
   arch : {"x64", "x32", "ppc64", "s390x", "ppc64le", "aarch64", "arm", "a"},
   platform : {"linux", "a"}, version : {Version11, <<"8">>},
   endian : {"", "big", "little", "middle"}, a : ArtifactQueries,
   readable : BOOLEAN]

\* A route that hands the artifacts on without looking at MAVEN_CENTRAL.
SwitchIgnored(a, mavenCentral) ==
  [rejected |-> FALSE, artifacts |-> IF a # <<>> THEN Split(a, ",") ELSE <<>>]

\* jlink.go:130-138, 176-184: context.Query("artifacts") of the two routes
\* with path parameters.
QueryArtifacts(a, mavenCentral) ==
  IF a # <<>>
  THEN IF mavenCentral
       THEN [rejected |-> FALSE, artifacts |-> Split(a, ",")]
       ELSE [rejected |-> TRUE, artifacts |-> <<>>]
  ELSE [rejected |-> FALSE, artifacts |-> <<>>]

\* jlink.go:152-155: req.Artifacts of the JSON route.
BodyArtifacts(list, mavenCentral) ==
  IF ~mavenCentral /\ Len(list) > 0
  THEN [rejected |-> TRUE, artifacts |-> <<>>]
  ELSE [rejected |-> FALSE, artifacts |-> list]

\* The handler returned without calling handleRequest.
Rejected(route, code, reason) ==
  routed' = [routed EXCEPT !.at = "handled", !.route = route, !.called = FALSE,
                           !.code = code, !.reason = reason]

\* handleRequest(context, platform, arch, version, endian, implementation,
\* modules, artifacts): its checks; main has looked at MAVEN_CENTRAL before
\* the call.  A request that passes goes on to the lookups with the endian
\* that jlink hands to the tool (jlink.go:304, 387-388).
handleRequest(route, artifacts) ==
  LET q == [platform |-> routed.platform, arch |-> routed.arch,
            version |-> routed.version, endian |-> routed.endian,
            implementation |-> "hotspot", modules |-> <<JavaBase>>,
            artifacts |-> artifacts]
      reason == Validate(q, TRUE)
  IN  routed' = [routed EXCEPT
                   !.at = "handled", !.route = route, !.called = TRUE,
                   !.artifacts = artifacts,
                   !.code = IF reason # "" THEN 400 ELSE 0,
                   !.reason = reason,
                   !.passed = reason = "",
                   !.toJlink = IF reason = "" THEN guessEndian(routed.endian, routed.arch)
                               ELSE ""]

RouteInit ==
  /\ NoService
  /\ NoCacheRun
  /\ NoVersionCheck
  /\ NoLink
  /\ NoCompare
  /\ NoResolver
  /\ \E given \in RouteInputs :
       routed = [at |-> "given", MAVEN_CENTRAL |-> given.MAVEN_CENTRAL,
                 arch |-> given.arch, platform |-> given.platform,
                 version |-> given.version, endian |-> given.endian, a |-> given.a,
                 readable |-> given.readable,
                 route |-> "", called |-> FALSE, artifacts |-> <<>>, code |-> 0,
                 reason |-> "", passed |-> FALSE, toJlink |-> ""]

RouteUnchanged ==
  UNCHANGED <<service, looked, buckets, compared, checkedToken, checkResult, requested, addModules, environ,
              determined, jl, sent, resolver>>

\* router.GET("/:arch/:os/:version"), jlink.go:119-141
GetRuntime ==
  /\ routed.at = "given"
  /\ LET query == QueryArtifacts(routed.a, routed.MAVEN_CENTRAL)
     IN  IF query.rejected
         THEN Rejected("GET /:arch/:os/:version", 400, "Maven Central integration is disabled")
         ELSE handleRequest("GET /:arch/:os/:version", query.artifacts)
  /\ RouteUnchanged

\* router.POST("/"), jlink.go:144-158; a body that does not bind is answered
\* by gin's BindJSON, which aborts the request with 400.
PostJson ==
  /\ routed.at = "given"
  /\ IF ~routed.readable
     THEN Rejected("POST /", 400, "")
     ELSE LET body == BodyArtifacts(IF routed.a # <<>> THEN Split(routed.a, ",") ELSE <<>>,
                                    routed.MAVEN_CENTRAL)
          IN  IF body.rejected
              THEN Rejected("POST /", 400, "Maven Central integration is disabled")
              ELSE handleRequest("POST /", body.artifacts)
  /\ RouteUnchanged

\* router.POST("/:arch/:os/:version"), jlink.go:161-187
PostModuleInfo ==
  /\ routed.at = "given"
  /\ IF ~routed.readable
     THEN Rejected("POST /:arch/:os/:version", 400,
                   "The request body must be a valid module-info.java file")
     ELSE LET query == QueryArtifacts(routed.a, routed.MAVEN_CENTRAL)
          IN  IF query.rejected
              THEN Rejected("POST /:arch/:os/:version", 400,
                            "Maven Central integration is disabled")
              ELSE handleRequest("POST /:arch/:os/:version", query.artifacts)
  /\ RouteUnchanged

RouteNext == GetRuntime \/ PostJson \/ PostModuleInfo

SpecRoute == RouteInit /\ [][RouteNext]_vars

\* C36: a request that passes the checks goes on with endian "little" or
\* "big"; when the request gave none it is "big" for ppc64 and s390x and
\* "little" for every other architecture, and a request that gave none is
\* not rejected for its endian; a request that gave anything but "little"
\* or "big" is answered 400 and does not go on to the tool.
C36_Endian ==
  routed.at = "handled" =>
    /\ routed.passed => routed.toJlink \in {"little", "big"}
    /\ (routed.passed /\ routed.endian = "")
         => (routed.toJlink = "big" <=> routed.arch \in {"ppc64", "s390x"})
    /\ (routed.passed /\ routed.endian # "") => routed.toJlink = routed.endian
    /\ routed.endian = "" => routed.reason # "Valid endian types: [little, big]"
    /\ routed.endian \notin {"", "little", "big"}
         => routed.code = 400 /\ ~routed.passed /\ routed.toJlink = ""

\* A request for ppc64 without endian went on with "big".
C36_Witness ==
  /\ routed.at = "handled" /\ routed.passed
  /\ routed.arch = "ppc64" /\ routed.endian = "" /\ routed.toJlink = "big"

\* C37: with MAVEN_CENTRAL off a request with at least one artifact is
\* answered 400 on each of the three routes without handleRequest being
\* called, so that nothing is validated, looked up or downloaded for it; the
\* reason is that the integration is disabled whenever the body was read.
C37_MavenCentralDisabled ==
  (routed.at = "handled" /\ ~routed.MAVEN_CENTRAL /\ routed.a # <<>>) =>
    /\ routed.code = 400
    /\ ~routed.called /\ ~routed.passed /\ routed.artifacts = <<>>
    /\ routed.readable => routed.reason = "Maven Central integration is disabled"

\* The JSON route rejected a request with two artifacts and an invalid
\* platform for the disabled integration.
C37_Witness ==
  /\ routed.at = "handled" /\ routed.route = "POST /" /\ routed.readable
  /\ ~routed.MAVEN_CENTRAL /\ routed.a = Coordinate \o <<",">> \o OtherCoordinate
  /\ routed.platform = "a"
  /\ routed.reason = "Maven Central integration is disabled"

(***************************************************************************)
(* downloadRelease for requests that name one release by different version *)
(* tokens (adoptium.go:89-132; the version parameter is the token of the   *)
(* request, jlink.go:278, 285).                                            *)
(***************************************************************************)
\* The version of the release a binary belongs to: build 1 is 11.0.8+10,
\* build 2 is 11.0.8+11.
ReleaseVersion(binary) ==
  <<"1", "1", ".", "0", ".", "8", "+", "1", ToString(BuildOf(binary) - 1)>>

\* What archiver.Unarchive leaves under runtimePath: the archive of a release
\* holds one root directory, jdk-<version of the release>.
RuntimeRoot(binary) == runtimePath(binary) \o << <<"jdk-">> \o ReleaseVersion(binary) >>

TokenRequests ==
  { [q EXCEPT !.version = v] : q \in AcceptedInputs, v \in VersionTokens }

TokenInit ==
  /\ MAVEN_CENTRAL = FALSE
  /\ req \in [Requests -> TokenRequests]
  /\ metadataCache = Looked(req)
  /\ downloadLock = Unlocked
  /\ rtCache = [d \in RuntimePaths |-> "absent"]
  /\ tmpDirs = {}
  /\ crashed = FALSE
  /\ pc = [r \in Requests |-> "dl_lock"]
  /\ stage = [r \in Requests |-> "local"]
  /\ found = [r \in Requests |-> NoBinary]
  /\ bin = [r \in Requests |-> [target |-> TargetBinary(req[r]), local |-> LocalBinary(req[r])]]
  /\ path = [r \in Requests |-> [target |-> NoPath, local |-> NoPath]]
  /\ dirs = [r \in Requests |-> NoDirs]
  /\ resp = [r \in Requests |-> NoResponse]
  /\ downloads = [d \in RuntimePaths |-> 0]
  /\ extractions = [d \in RuntimePaths |-> 0]
  /\ failed = [d \in RuntimePaths |-> FALSE]
  /\ last = [d \in RuntimePaths |-> "none"]
  /\ returned = [d \in RuntimePaths |-> {}]
  /\ entry = [r \in Requests |-> NoEntry]
  /\ underLock = [r \in Requests |-> "no"]
  /\ asked = [r \in Requests |-> req[r]]
  /\ listed = {1}
  /\ Offline

SpecTokens == TokenInit /\ [][StoreNext]_vars

\* C31: every handle downloadRelease has returned for a cache directory is
\* the root directory the extraction left in it, whatever token the request
\* named the release by, so that a hit returns the handle of the miss that
\* filled the directory.
C31_HandleExists ==
  \A r \in Requests : \A s \in {"local", "target"} :
    path[r][s] # NoPath => path[r][s] = RuntimeRoot(bin[r][s])

(***************************************************************************)
(* downloadRelease under the scheduler: a goroutine that can take a step   *)
(* takes it, and a download or an extraction that has started ends         *)
(* (adoptium.go:89-132).  Each handler makes two calls, so a handler that  *)
(* waits for the mutex is overtaken a bounded number of times.             *)
(***************************************************************************)
DlStep(r) == DlLock(r) \/ DlStat(r) \/ DlFetch(r) \/ DlExtract(r) \/ DlExtracted(r)

SpecStoreFair ==
  StoreInit /\ [][StoreNext]_vars /\ \A r \in Requests : WF_vars(DlStep(r))

\* The handler is inside downloadRelease for the runtime s.
InDownload(r, s) ==
  pc[r] \in {"dl_lock", "dl_stat", "dl_fetch", "dl_extract", "dl_extracting"} /\ stage[r] = s

\* C38: the step in which a call of downloadRelease returns, with a handle
\* or with any of its errors, leaves downloadLock unlocked, and the mutex is
\* held only by a handler inside the function; so every call that has
\* started returns, also behind a call that failed.
C38_LockReleased ==
  /\ [][ \A r \in Requests : \A s \in {"local", "target"} :
           (InDownload(r, s) /\ ~InDownload(r, s)') => downloadLock' = Unlocked ]_vars
  /\ [](\A r \in Requests :
          downloadLock = r => pc[r] \in {"dl_stat", "dl_fetch", "dl_extract", "dl_extracting"})
  /\ \A r \in Requests : \A s \in {"local", "target"} :
       InDownload(r, s) ~> ~InDownload(r, s)

\* One call failed and a call of another handler returned a handle after it.
C38_Witness ==
  \E r1, r2 \in Requests :
    /\ r1 # r2
    /\ pc[r1] = "done" /\ resp[r1].code = 400
    /\ pc[r2] = "mc_dir" /\ path[r2].target # NoPath
    /\ downloadLock = Unlocked
    /\ \E d \in RuntimePaths : failed[d] /\ last[d] \in {"hit", "extracted"}

(***************************************************************************)
(* lookupRelease as a cache (adoptium.go:57-85): claim C33, under          *)
(* SpecLookup.  A handler looks up its target and then, for the same       *)
(* version and implementation, the local platform; for a target on the     *)
(* local platform the second lookup comes after the first for one key.     *)
(***************************************************************************)
LookupPlaces == {"lk_read", "lk_query", "lk_write", "lk_reread"}

SameKeyTwice(r) ==
  cacheKey(req[r].arch, req[r].platform, req[r].implementation, req[r].version)
    = cacheKey(LOCAL_ARCH, LOCAL_PLATFORM, req[r].implementation, req[r].version)

\* C33: a lookup that comes after a successful lookup for its key returns
\* from the read of the map, without a query, the descriptor that lookup
\* returned; and the step in which a lookup fails leaves the map as it was.
C33_CachedLookup ==
  [][ \A r \in Requests :
        /\ (pc[r] \in LookupPlaces /\ stage[r] = "local" /\ pc'[r] = "dl_lock"
              /\ SameKeyTwice(r))
             => /\ pc[r] = "lk_read"
                /\ bin'[r].local = bin[r].target
        /\ (pc[r] \in LookupPlaces /\ pc'[r] = "done")
             => metadataCache' = metadataCache ]_vars

(***************************************************************************)
(* lookupRelease, one call after another, against an index that answers    *)
(* with any list of releases (adoptium.go:57-85).                          *)
(***************************************************************************)
LookedArchs == {"x64", "aarch64"}
LookedPlatforms == {"linux", "windows"}
LookedImplementations == {"hotspot", "openj9"}

LookedKeys ==
  { cacheKey(a, p, i, Version11) :
      a \in LookedArchs, p \in LookedPlatforms, i \in LookedImplementations }

\* The binaries a reply can hold.
CandidateBinaries ==
  { Binary(a, p, i, 1) : a \in LookedArchs, p \in LookedPlatforms, i \in LookedImplementations }

\* What adoptium.Get and the decoder can give when nothing is assumed of the
\* index: an error, no release, a release without binaries, a release whose
\* first binary is any binary, alone or followed by the one asked for.
CandidateReplies(arch, platform, implementation, version) ==
  IndexReplies(arch, platform, implementation, version, {1})
  \cup { [err |-> "", releases |-> << [Binaries |-> <<b>>] >>] : b \in CandidateBinaries }
  \cup { [err |-> "",
          releases |-> << [Binaries |-> <<b, Binary(arch, platform, implementation, 1)>>] >>] :
           b \in CandidateBinaries }

\* lookupRelease(arch, platform, implementation, version) on the map cache,
\* the index answering reply when it is asked.
lookupRelease(cache, arch, platform, implementation, version, reply) ==
  LET key == cacheKey(arch, platform, implementation, version)
  IN  IF cache[key] # NoBinary
      THEN [binary |-> cache[key], err |-> "", cache |-> cache, queried |-> FALSE]
      ELSE IF reply.err # ""
      THEN [binary |-> NoBinary, err |-> reply.err, cache |-> cache, queried |-> TRUE]
      ELSE IF Len(reply.releases) > 0 /\ Len(reply.releases[1].Binaries) > 0
      THEN [binary |-> reply.releases[1].Binaries[1], err |-> "",
            cache |-> [cache EXCEPT ![key] = reply.releases[1].Binaries[1]],
            queried |-> TRUE]
      ELSE [binary |-> NoBinary, err |-> "No release found", cache |-> cache,
            queried |-> TRUE]

CandidatesInit ==
  /\ NoService
  /\ NoVersionCheck
  /\ NoLink
  /\ NoCompare
  /\ NoRoute
  /\ NoResolver
  /\ buckets = NoBuckets
  /\ \E a \in LookedArchs, p \in LookedPlatforms, i \in LookedImplementations :
       looked = [at |-> "given", arch |-> a, platform |-> p, implementation |-> i,
                 version |-> Version11, cache |-> [k \in LookedKeys |-> NoBinary],
                 binary |-> NoBinary, err |-> "", queried |-> FALSE]

CandidatesUnchanged ==
  UNCHANGED <<service, buckets, routed, compared, checkedToken, checkResult, requested,
              addModules, environ, determined, jl, sent, resolver>>

\* The first call for the key, and a call that follows it.
LookupRelease ==
  /\ looked.at \in {"given", "returned"}
  /\ \E reply \in CandidateReplies(looked.arch, looked.platform, looked.implementation,
                                   looked.version) :
       LET result == lookupRelease(looked.cache, looked.arch, looked.platform,
                                   looked.implementation, looked.version, reply)
       IN  looked' = [looked EXCEPT
                        !.at = IF looked.at = "given" THEN "returned" ELSE "again",
                        !.cache = result.cache, !.binary = result.binary,
                        !.err = result.err, !.queried = result.queried]
  /\ CandidatesUnchanged

CandidatesNext == LookupRelease

SpecCandidates == CandidatesInit /\ [][CandidatesNext]_vars

\* C32: a binary returned by lookupRelease, from the index or from the map,
\* is of the architecture, the platform and the implementation asked for.
C32_DescriptorMatches ==
  (looked.at \in {"returned", "again"} /\ looked.binary # NoBinary) =>
    /\ looked.binary.Architecture = looked.arch
    /\ looked.binary.Platform = looked.platform
    /\ looked.binary.Implementation = looked.implementation

(***************************************************************************)
(* cacheRelease (maven_central.go:257-274) on the map that                 *)
(* updateLocalReleaseCache has just made (maven_central.go:393).           *)
(***************************************************************************)
MaxInserts == 3

\* releaseBinary: the fields cacheRelease reads.
ReleaseBinary(platform, arch, implementation, version) ==
  [Platform |-> platform, Arch |-> arch, Implementation |-> implementation,
   ReleaseVersion |-> [Version |-> version]]

\* Builds 10, 10.0, 10.1 and 11.
CachedBuilds == {<<"1", "0">>, <<"1", "0", ".", "0">>, <<"1", "0", ".", "1">>, <<"1", "1">>}

ReleaseBinaries ==
  { ReleaseBinary(p, "x64", "hotspot", Release(base, build)) :
      p \in {"linux", "windows"}, base \in JdkBases, build \in CachedBuilds }

\* release.Platform == r.Platform && release.Arch == r.Arch &&
\* release.Implementation == r.Implementation
SameTarget(release, r) ==
  /\ release.Platform = r.Platform
  /\ release.Arch = r.Arch
  /\ release.Implementation = r.Implementation

\* strings.Split(release.ReleaseVersion.Version, "+")[0]
BaseVersion(release) == Split(release.ReleaseVersion.Version, "+")[1]

\* A cacheRelease that stores the release it is given over the one it finds.
cacheLatest(cache, release) ==
  LET version == BaseVersion(release)
      same == { i \in 1 .. Len(cache[version]) : SameTarget(release, cache[version][i]) }
  IN  IF same # {}
      THEN [cache EXCEPT ![version][CHOOSE i \in same : \A j \in same : i <= j] = release]
      ELSE [cache EXCEPT ![version] = Append(@, release)]

\* cacheRelease(release), the map given and returned; an absent bucket and an
\* empty one are the same to it (258-261).
cacheRelease(cache, release) ==
  LET version == BaseVersion(release)
      same == { i \in 1 .. Len(cache[version]) : SameTarget(release, cache[version][i]) }
  IN  IF same # {}
      THEN LET i == CHOOSE i \in same : \A j \in same : i <= j
           IN  IF compareJdkRelease(cache[version][i].ReleaseVersion.Version,
                                    release.ReleaseVersion.Version) < 0
               THEN [cache EXCEPT ![version][i] = release]
               ELSE cache
      ELSE [cache EXCEPT ![version] = Append(@, release)]

BucketsInit ==
  /\ NoService
  /\ NoVersionCheck
  /\ NoLink
  /\ NoCompare
  /\ NoRoute
  /\ NoResolver
  /\ looked = NotLooked
  /\ buckets = [at |-> "made", cache |-> [base \in JdkBases |-> <<>>], inserted |-> <<>>]

CacheRelease ==
  /\ Len(buckets.inserted) < MaxInserts
  /\ \E release \in ReleaseBinaries :
       buckets' = [at |-> "cached",
                   cache |-> cacheRelease(buckets.cache, release),
                   inserted |-> Append(buckets.inserted, release)]
  /\ UNCHANGED <<service, looked, routed, compared, checkedToken, checkResult, requested,
                 addModules, environ, determined, jl, sent, resolver>>

BucketsNext == CacheRelease

SpecBuckets == BucketsInit /\ [][BucketsNext]_vars

\* The releases given to cacheRelease so far.
Inserted == { buckets.inserted[i] : i \in 1 .. Len(buckets.inserted) }

\* C34: after any calls of cacheRelease the bucket of a base version holds
\* one entry for each platform, architecture and implementation for which a
\* release of that base version was inserted, and no second one; the entry
\* is one of the inserted releases, and no inserted release for that triple
\* and base version has a greater build.
C34_GreatestBuildKept ==
  buckets.at = "cached" =>
    \A base \in JdkBases :
      LET bucket == buckets.cache[base]
      IN  /\ \A i, j \in 1 .. Len(bucket) : SameTarget(bucket[i], bucket[j]) => i = j
          /\ \A i \in 1 .. Len(bucket) :
               /\ bucket[i] \in Inserted
               /\ BaseVersion(bucket[i]) = base
               /\ \A x \in Inserted :
                    (SameTarget(x, bucket[i]) /\ BaseVersion(x) = base)
                      => Ordered(bucket[i].ReleaseVersion.Version,
                                 x.ReleaseVersion.Version) >= 0
          /\ \A x \in Inserted :
               BaseVersion(x) = base => \E i \in 1 .. Len(bucket) : SameTarget(x, bucket[i])

\* Builds 11, 10 and 10.1 of one base version were inserted for linux in
\* that order, and the bucket holds build 11 alone.
C34_Witness ==
  /\ buckets.at = "cached"
  /\ buckets.inserted =
       << ReleaseBinary("linux", "x64", "hotspot", Build11),
          ReleaseBinary("linux", "x64", "hotspot", Build10),
          ReleaseBinary("linux", "x64", "hotspot", Build10_1) >>
  /\ buckets.cache[TestBase] = << ReleaseBinary("linux", "x64", "hotspot", Build11) >>

====
